---- MODULE Spec2Model ----
(***************************************************************************)
(* Model of the WFS layer acquisition pipeline of backend/services:        *)
(*   bdtopo.py    batch download + CODE_LU augmentation                    *)
(*   bdtopage.py  batch download                                           *)
(*   rpg.py       single layer download                                    *)
(* Three specifications share the variables:                               *)
(*   SpecAug    _set_code_lu_field, statement by statement, on a bundle    *)
(*   SpecZip    _safe_extract_zip, member by member                        *)
(*   SpecBatch  the batch / fetch loops, one candidate attempt per step    *)
(***************************************************************************)
EXTENDS Integers, Sequences, FiniteSets, TLC

\* ------------------------------------------------------------------ bounds
\* Largest number of records of a bundle handed to _set_code_lu_field.
MaxRecords == 2
\* Largest width (bytes) of the text field of a bundle.
MaxWidth == 3

\* --------------------------------------------------------------- sequences
Min(a, b) == IF a <= b THEN a ELSE b

Max(a, b) == IF a >= b THEN a ELSE b

\* Python slice s[:n]
Take(s, n) == SubSeq(s, 1, Min(n, Len(s)))

\* Python slice s[n:] (n elements dropped)
Drop(s, n) == SubSeq(s, Min(n, Len(s)) + 1, Len(s))

RECURSIVE Repeat(_, _)
Repeat(x, n) == IF n <= 0 THEN <<>> ELSE <<x>> \o Repeat(x, n - 1)

SeqToSet(s) == {s[i] : i \in 1..Len(s)}

\* list.index(x): position of the first occurrence (0 when absent)
IndexOf(s, x) ==
    IF \E i \in 1..Len(s) : s[i] = x
    THEN CHOOSE i \in 1..Len(s) : s[i] = x /\ \A j \in 1..(i - 1) : s[j] # x
    ELSE 0

\* ------------------------------------------------ text encodings (bytes)
\* Bytes and code points are integers: 32 is the space that pads DBF cells,
\* 42 the '*' of a null numeric cell, 48..57 the ASCII digits.
\* str.strip() whitespace among the code points below U+0100
IsSpace(cp) == cp \in {9, 10, 11, 12, 13, 28, 29, 30, 31, 32, 133, 160}

IsCont(b) == b >= 128 /\ b <= 191

\* bytes.decode("utf-8", "strict"): <<TRUE, code points>> or <<FALSE, <<>>>>
RECURSIVE Utf8Decode(_)
Utf8Decode(bs) ==
    IF bs = <<>> THEN <<TRUE, <<>>>>
    ELSE LET b == Head(bs) IN
         IF b < 128
         THEN LET r == Utf8Decode(Tail(bs)) IN
              IF r[1] THEN <<TRUE, <<b>> \o r[2]>> ELSE <<FALSE, <<>>>>
         ELSE IF b >= 194 /\ b <= 223 /\ Len(bs) >= 2 /\ IsCont(bs[2])
         THEN LET r == Utf8Decode(Drop(bs, 2)) IN
              IF r[1] THEN <<TRUE, <<(b - 192) * 64 + (bs[2] - 128)>> \o r[2]>>
              ELSE <<FALSE, <<>>>>
         ELSE IF b >= 224 /\ b <= 239 /\ Len(bs) >= 3 /\ IsCont(bs[2]) /\ IsCont(bs[3])
                 /\ (b = 224 => bs[2] >= 160) /\ (b = 237 => bs[2] <= 159)
         THEN LET r == Utf8Decode(Drop(bs, 3)) IN
              IF r[1]
              THEN <<TRUE, <<(b - 224) * 4096 + (bs[2] - 128) * 64 + (bs[3] - 128)>> \o r[2]>>
              ELSE <<FALSE, <<>>>>
         ELSE <<FALSE, <<>>>>

\* str.encode("utf-8")
RECURSIVE Utf8Encode(_)
Utf8Encode(cps) ==
    IF cps = <<>> THEN <<>>
    ELSE LET c == Head(cps) IN
         (IF c < 128 THEN <<c>>
          ELSE IF c < 2048 THEN <<192 + (c \div 64), 128 + (c % 64)>>
          ELSE <<224 + (c \div 4096), 128 + ((c \div 64) % 64), 128 + (c % 64)>>)
         \o Utf8Encode(Tail(cps))

\* cp1252 leaves five bytes undefined; the bytes 0x80..0x9F it defines map
\* above U+0100 (kept apart from latin1 by an offset of 1024).
Cp1252Decode(bs) ==
    IF \E i \in 1..Len(bs) : bs[i] \in {129, 141, 143, 144, 157}
    THEN <<FALSE, <<>>>>
    ELSE <<TRUE, [i \in 1..Len(bs) |->
                    IF bs[i] >= 128 /\ bs[i] <= 159 THEN 1024 + bs[i] ELSE bs[i]]>>

\* bytes.decode(encoding, "strict")
Decode(enc, bs) ==
    IF enc = "utf-8" THEN Utf8Decode(bs)
    ELSE IF enc = "latin1" THEN <<TRUE, bs>>
    ELSE Cp1252Decode(bs)

RECURSIVE LStrip(_)
LStrip(cps) == IF cps # <<>> /\ IsSpace(Head(cps)) THEN LStrip(Tail(cps)) ELSE cps

RECURSIVE RStrip(_)
RStrip(cps) ==
    IF cps # <<>> /\ IsSpace(cps[Len(cps)]) THEN RStrip(SubSeq(cps, 1, Len(cps) - 1)) ELSE cps

\* str.strip()
Strip(cps) == RStrip(LStrip(cps))

\* format(n, "d") for n >= 0, as ASCII bytes
RECURSIVE FormatD(_)
FormatD(n) == IF n < 10 THEN <<48 + n>> ELSE FormatD(n \div 10) \o <<48 + (n % 10)>>

\* int(b"  123 ") for a cell of spaces and digits (0 for the empty digit string)
RECURSIVE DigitsToInt(_, _)
DigitsToInt(ds, acc) ==
    IF ds = <<>> THEN acc ELSE DigitsToInt(Tail(ds), acc * 10 + (Head(ds) - 48))

\* s.rjust(n) / s.ljust(n) with spaces
RJust(s, n) == Repeat(32, n - Len(s)) \o s

LJust(s, n) == s \o Repeat(32, n - Len(s))

\* ------------------------------------------- shapefile bundle (pyshp view)
\* A DBF field definition (name, type, size, decimals); a DBF row is one raw
\* cell (bytes, exactly `size` long) per field.  Python values read from a
\* row are [k |-> "int", v], [k |-> "str", s] (code points) or [k |-> "none"].
FieldDef(n, t, s, d) == [name |-> n, type |-> t, size |-> s, dec |-> d]

IntVal(n) == [k |-> "int", v |-> n]

StrVal(cps) == [k |-> "str", s |-> cps]

NoneVal == [k |-> "none"]

IsDigit(b) == b >= 48 /\ b <= 57

\* Reader: one cell to a Python value under the reader's encoding.
\* <<TRUE, value>>, or <<FALSE, _>> for a UnicodeDecodeError.
ReadCell(f, raw, e) ==
    IF f.type = "N"
    THEN LET ds == SelectSeq(raw, IsDigit) IN
         <<TRUE, IF ds = <<>> THEN NoneVal ELSE IntVal(DigitsToInt(ds, 0))>>
    ELSE LET r == Decode(e, raw) IN
         IF r[1] THEN <<TRUE, StrVal(Strip(r[2]))>> ELSE <<FALSE, NoneVal>>

\* Reader: a whole row; fails when one cell fails.
ReadRecord(fields, cells, e) ==
    IF \A i \in 1..Len(fields) : ReadCell(fields[i], cells[i], e)[1]
    THEN <<TRUE, [i \in 1..Len(fields) |-> ReadCell(fields[i], cells[i], e)[2]]>>
    ELSE <<FALSE, <<>>>>

\* Writer.record: one value to a cell of exactly f.size bytes; the writer is
\* opened without an encoding (bdtopo.py:216), so text is written as UTF-8,
\* and a value longer than the field is cut to the field's size.
WriteCell(f, val) ==
    IF f.type = "N"
    THEN IF val.k = "none" THEN Repeat(42, f.size)
         ELSE RJust(Take(FormatD(val.v), f.size), f.size)
    ELSE LJust(Take(IF val.k = "str" THEN Utf8Encode(val.s)
                    ELSE IF val.k = "int" THEN FormatD(val.v)
                    ELSE <<>>, f.size), f.size)

WriteRecord(fields, values) == [i \in 1..Len(fields) |-> WriteCell(fields[i], values[i])]

\* ------------------------------------------------- _set_code_lu_field data
CODE_LU == "CODE_LU"

\* writer.field("CODE_LU", "N", 10, 0)
CodeLuField == FieldDef(CODE_LU, "N", 10, 0)

FieldNames(fields) == [i \in 1..Len(fields) |-> fields[i].name]

HasCodeLu(fields) == CODE_LU \in SeqToSet(FieldNames(fields))

\* field_names.index("CODE_LU"), 1-based (0 when has_code_lu is false)
CodeIdx(fields) == IndexOf(FieldNames(fields), CODE_LU)

\* the schema given to the writer (bdtopo.py:219-222)
NewFields(fields) == IF HasCodeLu(fields) THEN fields ELSE Append(fields, CodeLuField)

\* the values of one rewritten record (bdtopo.py:225-229)
NewValues(fields, values, c) ==
    IF HasCodeLu(fields) THEN [values EXCEPT ![CodeIdx(fields)] = IntVal(c)]
    ELSE Append(values, IntVal(c))

\* _open_shapefile_reader_with_fallback: the first of utf-8, latin1, cp1252
\* under which the reader opens and next(iterRecords(), None) decodes;
\* "none" when all three fail (RuntimeError).  dbf = NoFile: the reader
\* cannot open the bundle (ShapefileException under every encoding).
NoFile == [gen |-> -1]

Encodings == <<"utf-8", "latin1", "cp1252">>

ProbeOk(dbf, e) ==
    /\ dbf # NoFile
    /\ (dbf.rows # <<>> => ReadRecord(dbf.fields, dbf.rows[1], e)[1])

OpenReaderWithFallback(dbf) ==
    IF \E i \in 1..Len(Encodings) : ProbeOk(dbf, Encodings[i])
    THEN Encodings[CHOOSE i \in 1..Len(Encodings) :
                     /\ ProbeOk(dbf, Encodings[i])
                     /\ \A j \in 1..(i - 1) : ~ProbeOk(dbf, Encodings[j])]
    ELSE "none"

\* ------------------------------------------------------------ text (str)
\* A Python str is a sequence of one-character strings.
LowerChar(c) ==
    CASE c = "A" -> "a" [] c = "B" -> "b" [] c = "C" -> "c" [] c = "D" -> "d"
      [] c = "E" -> "e" [] c = "F" -> "f" [] c = "G" -> "g" [] c = "H" -> "h"
      [] c = "I" -> "i" [] c = "J" -> "j" [] c = "K" -> "k" [] c = "L" -> "l"
      [] c = "M" -> "m" [] c = "N" -> "n" [] c = "O" -> "o" [] c = "P" -> "p"
      [] c = "Q" -> "q" [] c = "R" -> "r" [] c = "S" -> "s" [] c = "T" -> "t"
      [] c = "U" -> "u" [] c = "V" -> "v" [] c = "W" -> "w" [] c = "X" -> "x"
      [] c = "Y" -> "y" [] c = "Z" -> "z" [] OTHER -> c

\* str.lower()
LowerStr(s) == [i \in 1..Len(s) |-> LowerChar(s[i])]

\* needle in hay
Contains(hay, needle) ==
    \E i \in 0..(Len(hay) - Len(needle)) : SubSeq(hay, i + 1, i + Len(needle)) = needle

StartsWith(s, p) == Len(p) <= Len(s) /\ SubSeq(s, 1, Len(p)) = p

EndsWith(s, p) == Len(p) <= Len(s) /\ SubSeq(s, Len(s) - Len(p) + 1, Len(s)) = p

\* str.replace(a, b) for single characters
ReplaceChar(s, a, b) == [i \in 1..Len(s) |-> IF s[i] = a THEN b ELSE s[i]]

\* str.strip() of blanks
RECURSIVE TrimLeft(_)
TrimLeft(s) == IF s # <<>> /\ Head(s) = " " THEN TrimLeft(Tail(s)) ELSE s

RECURSIVE TrimRight(_)
TrimRight(s) == IF s # <<>> /\ s[Len(s)] = " " THEN TrimRight(SubSeq(s, 1, Len(s) - 1)) ELSE s

StripStr(s) == TrimRight(TrimLeft(s))

\* PurePath.suffix of a file name: from its last dot, unless the name starts
\* with that dot or ends with it
Suffix(name) ==
    LET dots == {i \in 2..(Len(name) - 1) : name[i] = "."} IN
    IF dots = {} THEN <<>>
    ELSE SubSeq(name, CHOOSE i \in dots : \A j \in dots : j <= i, Len(name))

\* ------------------------------------------------------ _safe_extract_zip
\* Largest number of members of an archive.
MaxMembers == 2

\* A path is a sequence of components (each a str); the component "/" in
\* first place makes it absolute.  An archive is a sequence of members
\* [name, data], data being "ok", "baddeflate" (zlib.error while inflating)
\* or "badcrc" (BadZipFile at the end of the member); NotZip is a body that
\* is no zip container.
Member(n, d) == [name |-> n, data |-> d]

Archive(ms) == [valid |-> TRUE, members |-> ms]

NotZip == [valid |-> FALSE, members |-> <<>>]

ROOT == <<"/">>

DOTDOT == <<".", ".">>

\* Path.__truediv__: an absolute right operand replaces the left one
Join(dir, name) == IF name # <<>> /\ Head(name) = ROOT THEN Tail(name) ELSE dir \o name

\* Path.resolve() (no symlinks): ".." removes the component before it
RECURSIVE ResolveFrom(_, _)
ResolveFrom(done, rest) ==
    IF rest = <<>> THEN done
    ELSE IF Head(rest) = DOTDOT
    THEN ResolveFrom(SubSeq(done, 1, Max(Len(done) - 1, 0)), Tail(rest))
    ELSE ResolveFrom(Append(done, Head(rest)), Tail(rest))

Resolve(path) == ResolveFrom(<<>>, path)

IsPrefix(p, q) == Len(p) <= Len(q) /\ SubSeq(q, 1, Len(p)) = p

\* bdtopo.py:275  target = (out_dir / info.filename).resolve()
TargetOf(out_dir, m) == Resolve(Join(out_dir, m.name))

\* bdtopo.py:276  out_dir_resolved not in target.parents and target != out_dir_resolved
EscapesDir(out_dir, m) == ~IsPrefix(Resolve(out_dir), TargetOf(out_dir, m))

IsPlainComponent(c) == c \notin {ROOT, DOTDOT, <<".">>, <<>>}

\* ZipFile.extractall writes a member under out_dir with the components
\* "", "." and ".." and a leading "/" removed from its name
WrittenPath(out_dir, m) == out_dir \o SelectSeq(m.name, IsPlainComponent)

\* the exception extractall raises on a member's data, as it leaves the call
DataError(d) ==
    IF d = "baddeflate" THEN "zlib.error" ELSE "RuntimeError:invalid"

\* member names a server may put in an archive
A_SHP == <<"a", ".", "s", "h", "p">>

A_DBF == <<"a", ".", "d", "b", "f">>

B_SHP_UPPER == <<"B", ".", "S", "H", "P">>

\* ============================================================ WFS layer fetch
\* Largest number of layers in one batch request.
MaxLayers == 2

\* bdtopo.py:199  last_error[:200]
DIAG_LIMIT_BDTOPO == 200

\* bdtopage.py:141 and rpg.py:122  last_error[:500]
DIAG_LIMIT == 500

\* bdtopo.py:152  any(k in fmt.lower() for k in ("shape", "shp", "zip"))
ShapeKeywords == {<<"s", "h", "a", "p", "e">>, <<"s", "h", "p">>, <<"z", "i", "p">>}

IsShapeLike(fmt) == \E k \in ShapeKeywords : Contains(LowerStr(fmt), k)

\* bdtopo.py:154
fallback_formats ==
    << <<"s", "h", "a", "p", "e", "z", "i", "p">>,
       <<"s", "h", "a", "p", "e", "-", "z", "i", "p">>,
       <<"a", "p", "p", "l", "i", "c", "a", "t", "i", "o", "n", "/", "z", "i", "p">>,
       <<"S", "H", "A", "P", "E", "-", "Z", "I", "P">>,
       <<"z", "i", "p">> >>

\* a variant that offers only what the service advertised
CandidateFormats_NoFallback(declared_formats) == SelectSeq(declared_formats, IsShapeLike)

\* bdtopo.py:151-158  candidate_formats from the formats the probe returned
CandidateFormats(declared_formats) ==
    LET preferred_shape_like == SelectSeq(declared_formats, IsShapeLike)
        taken == {LowerStr(preferred_shape_like[i]) : i \in 1..Len(preferred_shape_like)}
        NotTaken(fmt) == LowerStr(fmt) \notin taken
    IN preferred_shape_like \o SelectSeq(fallback_formats, NotTaken)

\* a variant in which the format loop offers a single format to each type name
FormatsLeft_FirstOnly(fi, formats) == fi <= 1 /\ fi <= Len(formats)

\* bdtopo.py:163  for output_format in candidate_formats
FormatsLeft(fi, formats) == fi <= Len(formats)

\* a variant that appends every name, seen before or not
AppendNew_KeepRepeats(acc, names) == acc \o names

\* appends to `acc`, in order, the names that are not yet in it
RECURSIVE AppendNew(_, _)
AppendNew(acc, names) ==
    IF names = <<>> THEN acc
    ELSE AppendNew(IF Head(names) \notin SeqToSet(acc) THEN Append(acc, Head(names)) ELSE acc,
                   Tail(names))

\* bdtopo.py:327-343
ResolveTypenameCandidates(typename, available_names) ==
    LET base == StripStr(typename)
        lower_base == LowerStr(base)
        Same(name) == LowerStr(name) = lower_base
        Qualified(name) == EndsWith(LowerStr(name), <<":">> \o lower_base)
        Within(name) == Contains(LowerStr(name), lower_base)
        c1 == AppendNew(<<base>>, SelectSeq(available_names, Same))
        c2 == IF ":" \notin SeqToSet(base)
              THEN AppendNew(c1, SelectSeq(available_names, Qualified))
              ELSE c1
    IN IF available_names = <<>> THEN <<base>>
       ELSE AppendNew(c2, SelectSeq(available_names, Within))

\* ------------------------------------------------------------- responses
\* What a GetFeature request gets: a RequestException (net), or a response
\* with its status, Content-Type header (<<>> when absent), the first bytes
\* of its body, the length of response.text and the body seen as an archive.
Response(net, status, ctype, head, textlen, zip) ==
    [net |-> net, status |-> status, ctype |-> ctype, head |-> head,
     textlen |-> textlen, zip |-> zip]

XML_DECL == <<"<", "?", "x", "m", "l">>

\* a body the check of bdtopo.py:176 takes for XML though its Content-Type is not
IsXmlAnswer_HeaderOnly(r) == Contains(LowerStr(r.ctype), <<"x", "m", "l">>)

\* bdtopo.py:175-176
IsXmlAnswer(r) ==
    \/ Contains(LowerStr(r.ctype), <<"x", "m", "l">>)
    \/ StartsWith(LowerStr(Take(r.head, 5)), XML_DECL)

\* the Content-Type of a zip answer
APPLICATION_ZIP == <<"a", "p", "p", "l", "i", "c", "a", "t", "i", "o", "n", "/", "z", "i", "p">>

Responses ==
    { Response(TRUE, 0, <<>>, <<>>, 40, NotZip),
      Response(FALSE, 404, <<"t", "e", "x", "t", "/", "h", "t", "m", "l">>, <<"<", "h", "t", "m", "l">>, 600, NotZip),
      Response(FALSE, 200, <<"t", "e", "x", "t", "/", "X", "M", "L">>, <<"<", "E", "x", "c", "e">>, 250, NotZip),
      Response(FALSE, 200, <<>>, <<"<", "?", "x", "m", "l">>, 250, NotZip),
      Response(FALSE, 200, APPLICATION_ZIP, <<"<", "h", "t", "m", "l">>, 30, NotZip),
      Response(FALSE, 200, APPLICATION_ZIP, <<"P", "K">>, 0,
               Archive(<<Member(<<A_SHP>>, "ok"), Member(<<DOTDOT, A_DBF>>, "ok")>>)),
      Response(FALSE, 200, APPLICATION_ZIP, <<"P", "K">>, 0,
               Archive(<<Member(<<A_DBF>>, "ok")>>)),
      Response(FALSE, 200, APPLICATION_ZIP, <<"P", "K">>, 0,
               Archive(<<Member(<<A_DBF>>, "ok"), Member(<<A_SHP>>, "baddeflate")>>)),
      Response(FALSE, 200, APPLICATION_ZIP, <<"P", "K">>, 0,
               Archive(<<Member(<<B_SHP_UPPER>>, "ok"), Member(<<A_DBF>>, "ok")>>)) }

\* ----------------------------------------------------------- diagnostics
\* A diagnostic text: what produced it, the attempt <<layer, type-name
\* candidate, format candidate>> it comes from and its length in characters.
Diag(kind, at, len) == [kind |-> kind, at |-> at, len |-> len]

NoDiag == Diag("", <<0, 0, 0>>, 0)

\* text[:limit]
Truncate(d, limit) == [d EXCEPT !.len = Min(d.len, limit)]

\* the messages built from a file name are shorter than either limit for the
\* names used here; their length is not followed
ShortDiag(kind, at) == Diag(kind, at, 0)

\* str() of the RuntimeError of bdtopo.py:199: the type name and the copy of
\* last_error it carries; NoReason is the empty string
Exhausted(typename, d, limit) ==
    [kind |-> "Echec WFS SHP", typename |-> typename, cause |-> Truncate(d, limit)]

OtherReason(kind) == [kind |-> kind, typename |-> <<>>, cause |-> NoDiag]

NoReason == OtherReason("")

\* ------------------------------------------------------------ dict, Path
\* A dict is the sequence of its items in insertion order.
DictKeys(d) == {d[i].key : i \in 1..Len(d)}

DictSet(d, k, v) ==
    IF k \in DictKeys(d)
    THEN [i \in 1..Len(d) |-> IF d[i].key = k THEN [key |-> k, value |-> v] ELSE d[i]]
    ELSE Append(d, [key |-> k, value |-> v])

DictGet(d, k) == d[CHOOSE i \in 1..Len(d) : d[i].key = k].value

\* ZipFile.extractall on members already checked: the files written and the
\* exception, if a member's data is bad
RECURSIVE ExtractAll(_, _, _)
ExtractAll(ms, out_dir, written) ==
    IF ms = <<>> THEN [exc |-> "none", written |-> written]
    ELSE LET w == written \cup {WrittenPath(out_dir, Head(ms))} IN
         IF Head(ms).data = "ok" THEN ExtractAll(Tail(ms), out_dir, w)
         ELSE [exc |-> DataError(Head(ms).data), written |-> w]

\* bdtopo.py:269-282 as one call: exception ("none" if it returns), files
\* written, list returned
SafeExtractZip(archive, out_dir) ==
    LET ms == archive.members
        nothing == [written |-> {}, extracted |-> <<>>]
    IN IF ~archive.valid
       THEN [exc |-> "RuntimeError:invalid"] @@ nothing
       ELSE IF \E i \in 1..Len(ms) : EscapesDir(out_dir, ms[i])
       THEN [exc |-> "RuntimeError:zipslip"] @@ nothing
       ELSE LET r == ExtractAll(ms, out_dir, {}) IN
            [exc |-> r.exc, written |-> r.written,
             extracted |-> IF r.exc = "none"
                           THEN [i \in 1..Len(ms) |-> TargetOf(out_dir, ms[i])]
                           ELSE <<>>]

\* bdtopo.py:192  p.suffix.lower() == ".shp"
IsShp(p) == p # <<>> /\ LowerStr(Suffix(p[Len(p)])) = <<".", "s", "h", "p">>

\* ===================================================== state (SpecAug part)
VARIABLES
    a_fs,     \* the bundle's directory: file name -> file, or NoFile
    a_pc,     \* position in _set_code_lu_field
    a_enc,    \* encoding of the open reader
    a_idx,    \* records copied to the writer so far
    a_ext,    \* extensions already handled by the final loop (0..3)
    a_exc,    \* exception that reached the caller ("none" if none)
    a_code,   \* the code_lu argument
    a_calls,  \* calls of _set_code_lu_field started on the bundle
    a_snap,   \* a_fs when the current call started
    a_first   \* a_fs when the first call returned

avars == <<a_fs, a_pc, a_enc, a_idx, a_ext, a_exc, a_code, a_calls, a_snap, a_first>>

\* ===================================================== state (SpecZip part)
VARIABLES
    z_archive,    \* the file at zip_path: NotZip or a sequence of members
    z_pc,         \* position in _safe_extract_zip
    z_idx,        \* members handled by the current loop
    z_extracted,  \* the list `extracted`
    z_disk,       \* paths written by the call
    z_exc         \* exception that reached the caller ("none" if none)

zvars == <<z_archive, z_pc, z_idx, z_extracted, z_disk, z_exc>>

\* ==================================================== state (SpecBatch part)
VARIABLES
    b_svc,         \* "bdtopo", "bdtopage" (batch calls) or "rpg" (one layer)
    b_selected,    \* the layers requested, in order: [key, typename]
    b_available,   \* available_typenames (bdtopo)
    b_pc,          \* position in the call
    b_i,           \* index of the layer being handled
    b_candidates,  \* type-name candidates of the layer
    b_ci,          \* index of the candidate being downloaded
    b_formats,     \* candidate_formats of the running download
    b_fi,          \* index of the format to request next
    b_dl_error,    \* last_error of the running download
    b_last_error,  \* last_error of the layer (bdtopo.py:96)
    b_typename,    \* the variable typename of the layer loop (bdtopo)
    b_shp_path,    \* shp_path, <<>> for None
    b_result,      \* result_layers / downloaded
    b_skipped,     \* skipped_layers / skipped
    b_exc,         \* exception that left the call (NoReason if none)
    b_requests,    \* GetFeature requests sent for the layer: [ci, fi, got]
    b_nformats,    \* number of formats of each download started for the layer
    b_attempt,     \* the last GetFeature request: the response, what was done with
                   \* it and what it left on disk
    b_failed,      \* layers handled so far without a result entry
    b_outcome,     \* how the layer last handled ended
    b_input,       \* the input geometry file: "valid" or "invalid" for get_emprise
    b_emprise      \* number of get_emprise calls made by the call so far

bvars ==
    <<b_svc, b_selected, b_available, b_pc, b_i, b_candidates, b_ci, b_formats, b_fi,
      b_dl_error, b_last_error, b_typename, b_shp_path, b_result, b_skipped, b_exc,
      b_requests, b_nformats, b_attempt, b_failed, b_outcome, b_input, b_emprise>>

\* ============================== state (one call of a module-level function)
VARIABLES
    f_fn,    \* the function called ("none" if none)
    f_args,  \* its arguments
    f_pc,    \* "idle", "call", "returned" or "raised"
    f_ret    \* the value returned, or the message of the error raised

fvars == <<f_fn, f_args, f_pc, f_ret>>

\* ============================ state (the GET requests of one layer fetch)
VARIABLES
    r_pairs,  \* number of candidate pairs (type name, format) of the fetch
    r_pair,   \* index of the pair whose GET is running or comes next
    r_pc,     \* "idle", "loop", "send", "returned" or "failed"
    r_retry,  \* the Retry object of the running GET
    r_sent,   \* transmissions of the running GET so far
    r_last,   \* outcome of the last transmission
    r_log     \* transmissions of each GET that has ended, in order

rvars == <<r_pairs, r_pair, r_pc, r_retry, r_sent, r_last, r_log>>

vars == <<avars, zvars, bvars, fvars, rvars>>

\* steps of one specification leave the other parts alone
OnlyAug == UNCHANGED <<zvars, bvars, fvars, rvars>>

OnlyZip == UNCHANGED <<avars, bvars, fvars, rvars>>

OnlyBatch == UNCHANGED <<avars, zvars, fvars, rvars>>

OnlyCall == UNCHANGED <<avars, zvars, bvars, rvars>>

OnlyRetry == UNCHANGED <<avars, zvars, bvars, fvars>>

Exts == <<"shp", "shx", "dbf">>

\* tmp_base.with_suffix(ext)
Tmp(ext) == "tmp_" \o ext

AugFiles == {"shp", "shx", "dbf", "tmp_shp", "tmp_shx", "tmp_dbf", "prj"}

\* ---- bundles handed to the augmenter
\* bytes of the text cells: 'a' and 0xE9 (e acute in latin1, invalid UTF-8)
TextAlphabet == {97, 233}

\* widths of a CODE_LU field already present in the bundle
CodeWidths == {1, 10}

\* code_lu arguments: selected_codes.get(layer_key, 0) and BATIMENT's 14
Codes == {0, 14}

NomField(w) == FieldDef("NOM", "C", w, 0)

OldCodeField(wc) == FieldDef(CODE_LU, "N", wc, 0)

\* schemas: the text field alone, or with a CODE_LU field before or after it
Schemas ==
    {<<NomField(w)>> : w \in 1..MaxWidth}
    \cup {<<OldCodeField(wc), NomField(w)>> : wc \in CodeWidths, w \in 1..MaxWidth}
    \cup {<<NomField(w), OldCodeField(wc)>> : wc \in CodeWidths, w \in 1..MaxWidth}

\* rows of a schema: any text, and 3 as the value of an existing CODE_LU
RowOf(fields, text) ==
    [i \in 1..Len(fields) |->
        IF fields[i].type = "C" THEN text ELSE RJust(FormatD(3), fields[i].size)]

TextWidth(fields) == fields[CHOOSE i \in 1..Len(fields) : fields[i].type = "C"].size

\* texts filling a cell of width w: one letter repeated, and "a" before "é"s
Texts(w) ==
    {Repeat(c, w) : c \in TextAlphabet} \cup {Take(<<97>> \o Repeat(233, w), w)}

RowSeqs(fields) ==
    UNION {[1..n -> {RowOf(fields, t) : t \in Texts(TextWidth(fields))}] : n \in 0..MaxRecords}

ShpFile(g, shapes) == [gen |-> g, shapes |-> shapes]

ShxFile(g, n) == [gen |-> g, n |-> n]

DbfFile(g, fields, rows) == [gen |-> g, fields |-> fields, rows |-> rows]

\* the i-th geometry of an input bundle is the token i
InitialBundle(fields, rows) ==
    [f \in AugFiles |->
        IF f = "shp" THEN ShpFile(0, [i \in 1..Len(rows) |-> i])
        ELSE IF f = "shx" THEN ShxFile(0, Len(rows))
        ELSE IF f = "dbf" THEN DbfFile(0, fields, rows)
        ELSE IF f = "prj" THEN [gen |-> 0]
        ELSE NoFile]

\* shp_path names no file at all
MissingBundle == [f \in AugFiles |-> NoFile]

NoAttempt ==
    [at |-> <<0, 0, 0>>, resp |-> Response(TRUE, 0, <<>>, <<>>, 0, NotZip),
     wrote |-> FALSE, opened |-> FALSE, diag |-> NoDiag, written |-> {},
     zip_left |-> FALSE]

BatchBlank ==
    /\ b_available = <<>>
    /\ b_i = 0
    /\ b_candidates = <<>>
    /\ b_ci = 0
    /\ b_formats = <<>>
    /\ b_fi = 0
    /\ b_dl_error = NoDiag
    /\ b_last_error = NoReason
    /\ b_typename = <<>>
    /\ b_shp_path = <<>>
    /\ b_result = <<>>
    /\ b_skipped = <<>>
    /\ b_exc = NoReason
    /\ b_requests = <<>>
    /\ b_nformats = <<>>
    /\ b_attempt = NoAttempt
    /\ b_failed = 0
    /\ b_outcome = "none"
    /\ b_emprise = 0

BatchIdle ==
    /\ b_svc = "none"
    /\ b_input = "none"
    /\ b_selected = <<>>
    /\ b_pc = "idle"
    /\ BatchBlank

AugIdle ==
    /\ a_fs = MissingBundle
    /\ a_code = 0
    /\ a_pc = "idle"
    /\ a_enc = "none"
    /\ a_idx = 0
    /\ a_ext = 0
    /\ a_exc = "none"
    /\ a_calls = 0
    /\ a_snap = MissingBundle
    /\ a_first = MissingBundle

ZipIdle ==
    /\ z_archive = NotZip
    /\ z_pc = "idle"
    /\ z_idx = 0
    /\ z_extracted = <<>>
    /\ z_disk = {}
    /\ z_exc = "none"

\* bdtopo.py:45-54  Retry(total=5, connect=5, read=5, status=5, ...)
RetryConfig == [total |-> 5, connect |-> 5, read |-> 5, status |-> 5]

\* the outcome of one transmission: a connection error, a read error, or a
\* response (status, Retry-After header present, body usable as a bundle)
Outcome(kind, status, retry_after, usable) ==
    [kind |-> kind, status |-> status, retry_after |-> retry_after, usable |-> usable]

NoOutcome == Outcome("none", 0, FALSE, FALSE)

RetryIdle ==
    /\ r_pairs = 0
    /\ r_pair = 0
    /\ r_pc = "idle"
    /\ r_retry = RetryConfig
    /\ r_sent = 0
    /\ r_last = NoOutcome
    /\ r_log = <<>>

CallIdle ==
    /\ f_fn = "none"
    /\ f_args = <<>>
    /\ f_pc = "idle"
    /\ f_ret = <<>>

InputBundles ==
    UNION {{InitialBundle(fields, rows) : rows \in RowSeqs(fields)} : fields \in Schemas}
    \cup {MissingBundle}

InitAug ==
    /\ ZipIdle
    /\ BatchIdle
    /\ CallIdle
    /\ RetryIdle
    /\ a_fs \in InputBundles
    /\ a_code \in Codes
    /\ a_pc = "call"
    /\ a_enc = "none"
    /\ a_idx = 0
    /\ a_ext = 0
    /\ a_exc = "none"
    /\ a_calls = 1
    /\ a_snap = a_fs
    /\ a_first = a_fs

\* ------------------------------------------- _set_code_lu_field, by steps
\* bdtopo.py:232-244: the except branch closes writer and reader, unlinks the
\* three temporary files and re-raises.
ExceptCleanup(fs) ==
    [f \in AugFiles |-> IF f \in {Tmp(Exts[k]) : k \in 1..3} THEN NoFile ELSE fs[f]]

RaiseFromTry(kind) ==
    /\ a_fs' = ExceptCleanup(a_fs)
    /\ a_pc' = "raised"
    /\ a_exc' = kind
    /\ UNCHANGED <<a_enc, a_idx, a_ext, a_code, a_calls, a_snap, a_first>>

\* an exception raised in the else branch (bdtopo.py:245-251) is not handled
RaiseFromElse(kind) ==
    /\ a_pc' = "raised"
    /\ a_exc' = kind
    /\ UNCHANGED <<a_fs, a_enc, a_idx, a_ext, a_code, a_calls, a_snap, a_first>>

\* bdtopo.py:206  reader = _open_shapefile_reader_with_fallback(shp_path)
AugOpenReader ==
    /\ a_pc = "call"
    /\ LET e == OpenReaderWithFallback(a_fs["dbf"]) IN
       IF e = "none"
       THEN /\ a_pc' = "raised"
            /\ a_exc' = "RuntimeError"
            /\ UNCHANGED <<a_fs, a_enc, a_idx, a_ext, a_code, a_calls, a_snap, a_first>>
       ELSE /\ a_pc' = "writer"
            /\ a_enc' = e
            /\ UNCHANGED <<a_fs, a_idx, a_ext, a_exc, a_code, a_calls, a_snap, a_first>>
    /\ OnlyAug

\* a variant whose writer starts the index file of the bundle itself afresh
AugCreateWriter_InPlace ==
    /\ a_pc = "writer"
    /\ a_fs' = [a_fs EXCEPT
            !["tmp_shp"] = ShpFile(a_calls, <<>>),
            !["tmp_shx"] = ShxFile(a_calls, 0),
            !["shx"] = ShxFile(a_calls, 0),
            !["tmp_dbf"] = DbfFile(a_calls, NewFields(a_fs["dbf"].fields), <<>>)]
    /\ a_pc' = "loop"
    /\ a_idx' = 0
    /\ UNCHANGED <<a_enc, a_ext, a_exc, a_code, a_calls, a_snap, a_first>>
    /\ OnlyAug

\* bdtopo.py:211-222  the writer opens the three temporary files and takes
\* the schema; io = FALSE: the files cannot be created (OSError).
AugCreateWriter ==
    /\ a_pc = "writer"
    /\ \E io \in BOOLEAN :
        IF io
        THEN /\ a_fs' = [a_fs EXCEPT
                    !["tmp_shp"] = ShpFile(a_calls, <<>>),
                    !["tmp_shx"] = ShxFile(a_calls, 0),
                    !["tmp_dbf"] = DbfFile(a_calls, NewFields(a_fs["dbf"].fields), <<>>)]
             /\ a_pc' = "loop"
             /\ a_idx' = 0
             /\ UNCHANGED <<a_enc, a_ext, a_exc, a_code, a_calls, a_snap, a_first>>
        ELSE RaiseFromTry("OSError")
    /\ OnlyAug

\* the row the writer stores for record i of the reader (bdtopo.py:225-231)
RewrittenRow(dbf, i, e, c) ==
    WriteRecord(NewFields(dbf.fields),
                NewValues(dbf.fields, ReadRecord(dbf.fields, dbf.rows[i], e)[2], c))

\* bdtopo.py:224-231  one iteration of the loop over reader.iterShapeRecords()
AugCopyRecord ==
    /\ a_pc = "loop"
    /\ a_idx < Len(a_fs["dbf"].rows)
    /\ LET dbf == a_fs["dbf"]
           i == a_idx + 1
       IN IF ~ReadRecord(dbf.fields, dbf.rows[i], a_enc)[1]
          THEN RaiseFromTry("UnicodeDecodeError")
          ELSE \E io \in BOOLEAN :
                IF io
                THEN /\ a_fs' = [a_fs EXCEPT
                            !["tmp_shp"].shapes = Append(@, a_fs["shp"].shapes[i]),
                            !["tmp_shx"].n = @ + 1,
                            !["tmp_dbf"].rows = Append(@, RewrittenRow(dbf, i, a_enc, a_code))]
                     /\ a_idx' = i
                     /\ UNCHANGED <<a_pc, a_enc, a_ext, a_exc, a_code, a_calls, a_snap, a_first>>
                ELSE RaiseFromTry("OSError")
    /\ OnlyAug

\* bdtopo.py:246-247  writer.close(); reader.close()
AugCloseWriter ==
    /\ a_pc = "loop"
    /\ a_idx = Len(a_fs["dbf"].rows)
    /\ \E io \in BOOLEAN :
        IF io
        THEN /\ a_pc' = "replace"
             /\ a_ext' = 0
             /\ UNCHANGED <<a_fs, a_enc, a_idx, a_exc, a_code, a_calls, a_snap, a_first>>
        ELSE RaiseFromElse("OSError")
    /\ OnlyAug

\* a variant that copies the temporary file over the original and leaves it
Replace_KeepsTmp(fs, ext) == [fs EXCEPT ![ext] = fs[Tmp(ext)]]

\* tmp_file.replace(shp_path.with_suffix(ext))
Replace(fs, ext) == [fs EXCEPT ![ext] = fs[Tmp(ext)], ![Tmp(ext)] = NoFile]

\* bdtopo.py:248-251  one iteration of the loop over (".shp", ".shx", ".dbf")
AugReplace ==
    /\ a_pc = "replace"
    /\ LET ext == Exts[a_ext + 1] IN
       \E io \in BOOLEAN :
        IF io
        THEN /\ a_fs' = IF a_fs[Tmp(ext)] # NoFile THEN Replace(a_fs, ext) ELSE a_fs
             /\ a_ext' = a_ext + 1
             /\ a_pc' = IF a_ext + 1 = Len(Exts) THEN "returned" ELSE "replace"
             /\ UNCHANGED <<a_enc, a_idx, a_exc, a_code, a_calls, a_snap, a_first>>
        ELSE RaiseFromElse("OSError")
    /\ OnlyAug

\* the caller applies _set_code_lu_field a second time, with the same code
AugCallAgain ==
    /\ a_pc = "returned"
    /\ a_calls = 1
    /\ a_calls' = 2
    /\ a_pc' = "call"
    /\ a_snap' = a_fs
    /\ a_first' = a_fs
    /\ a_enc' = "none"
    /\ a_idx' = 0
    /\ a_ext' = 0
    /\ UNCHANGED <<a_fs, a_exc, a_code>>
    /\ OnlyAug

NextAug ==
    \/ AugOpenReader
    \/ AugCreateWriter
    \/ AugCopyRecord
    \/ AugCloseWriter
    \/ AugReplace
    \/ AugCallAgain

SpecAug == InitAug /\ [][NextAug]_vars

\* ------------------------------------------------ _safe_extract_zip, by steps
ZipOutDir == <<<<"o", "u", "t">>, <<"l", "y", "r">>>>

MemberChoices ==
    { Member(<<A_SHP>>, "ok"),
      Member(<<A_DBF>>, "ok"),
      Member(<<DOTDOT, A_SHP>>, "ok"),
      Member(<<DOTDOT, <<"l", "y", "r">>, B_SHP_UPPER>>, "ok"),
      Member(<<ROOT, <<"e", "t", "c">>, <<"x">>>>, "ok"),
      Member(<<A_SHP>>, "baddeflate"),
      Member(<<A_DBF>>, "badcrc") }

Archives == {Archive(ms) : ms \in UNION {[1..n -> MemberChoices] : n \in 0..MaxMembers}}

InitZip ==
    /\ AugIdle
    /\ BatchIdle
    /\ CallIdle
    /\ RetryIdle
    /\ z_archive \in Archives \cup {NotZip}
    /\ z_pc = "open"
    /\ z_idx = 0
    /\ z_extracted = <<>>
    /\ z_disk = {}
    /\ z_exc = "none"

ZipRaise(kind) ==
    /\ z_pc' = "raised"
    /\ z_exc' = kind
    /\ UNCHANGED <<z_archive, z_idx, z_extracted>>

\* bdtopo.py:272  ZipFile(zip_path, "r"); BadZipFile becomes RuntimeError (281-282)
ZipOpen ==
    /\ z_pc = "open"
    /\ IF ~z_archive.valid
       THEN ZipRaise("RuntimeError:invalid") /\ UNCHANGED z_disk
       ELSE /\ z_pc' = "check"
            /\ UNCHANGED <<z_archive, z_idx, z_extracted, z_disk, z_exc>>
    /\ OnlyZip

\* a plausible slip: each member is written as soon as it has passed the check
ZipCheckMember_WritesAsItGoes ==
    /\ z_pc = "check"
    /\ z_idx < Len(z_archive.members)
    /\ LET m == z_archive.members[z_idx + 1] IN
       IF EscapesDir(ZipOutDir, m)
       THEN ZipRaise("RuntimeError:zipslip") /\ UNCHANGED z_disk
       ELSE /\ z_extracted' = Append(z_extracted, TargetOf(ZipOutDir, m))
            /\ z_disk' = z_disk \cup {WrittenPath(ZipOutDir, m)}
            /\ z_idx' = z_idx + 1
            /\ UNCHANGED <<z_archive, z_pc, z_exc>>
    /\ OnlyZip

\* bdtopo.py:274-278  one iteration of the loop over zf.infolist()
ZipCheckMember ==
    /\ z_pc = "check"
    /\ z_idx < Len(z_archive.members)
    /\ LET m == z_archive.members[z_idx + 1] IN
       IF EscapesDir(ZipOutDir, m)
       THEN ZipRaise("RuntimeError:zipslip") /\ UNCHANGED z_disk
       ELSE /\ z_extracted' = Append(z_extracted, TargetOf(ZipOutDir, m))
            /\ z_idx' = z_idx + 1
            /\ UNCHANGED <<z_archive, z_pc, z_disk, z_exc>>
    /\ OnlyZip

\* the loop is over: zf.extractall(out_dir) starts
ZipChecked ==
    /\ z_pc = "check"
    /\ z_idx = Len(z_archive.members)
    /\ z_pc' = "extract"
    /\ z_idx' = 0
    /\ UNCHANGED <<z_archive, z_extracted, z_disk, z_exc>>
    /\ OnlyZip

\* bdtopo.py:279  zf.extractall(out_dir), one member per step; the member's
\* file is created before its data is found bad
ZipExtractMember ==
    /\ z_pc = "extract"
    /\ z_idx < Len(z_archive.members)
    /\ LET m == z_archive.members[z_idx + 1] IN
       /\ z_disk' = z_disk \cup {WrittenPath(ZipOutDir, m)}
       /\ IF m.data = "ok"
          THEN /\ z_idx' = z_idx + 1
               /\ UNCHANGED <<z_archive, z_pc, z_extracted, z_exc>>
          ELSE ZipRaise(DataError(m.data))
    /\ OnlyZip

\* bdtopo.py:280  return extracted
ZipReturn ==
    /\ z_pc = "extract"
    /\ z_idx = Len(z_archive.members)
    /\ z_pc' = "returned"
    /\ UNCHANGED <<z_archive, z_idx, z_extracted, z_disk, z_exc>>
    /\ OnlyZip

NextZip ==
    \/ ZipOpen
    \/ ZipCheckMember
    \/ ZipChecked
    \/ ZipExtractMember
    \/ ZipReturn

SpecZip == InitZip /\ [][NextZip]_vars

\* --------------------------------------------------- the fetchers, by steps
\* The locals of a download (formats, index, last_error) end with it.
Layer(key, typename) == [key |-> key, typename |-> typename]

\* layer_map items (bdtopo)
BdtopoLayers ==
    { Layer(<<"H", "A", "I", "E">>, <<"b", ":", "h", "a", "i", "e">>),
      Layer(<<"B", "a", "t", "i">>, <<" ", "b", "a", "t", "i">>) }

\* layer_names (bdtopage): the key of a layer is its name
BdtopageLayers == {Layer(<<"s", "a", ":", "t">>, <<"s", "a", ":", "t">>), Layer(<<"s">>, <<"s">>)}

RpgLayer == Layer(<<"r", "p", "g", ":", "p">>, <<"r", "p", "g", ":", "p">>)

\* bdtopo.py:35-41
CODE_LU_DEFAULT == <<[key |-> <<"H", "A", "I", "E">>, value |-> 19]>>

\* bdtopo.py:93  selected_codes.get(layer_key, 0)
CodeFor(key) == IF key \in DictKeys(CODE_LU_DEFAULT) THEN DictGet(CODE_LU_DEFAULT, key) ELSE 0

SeqsUpTo(S, n) == UNION {[1..k -> S] : k \in 1..n}

DistinctKeys(s) == \A i, j \in 1..Len(s) : s[i].key = s[j].key => i = j

\* a dict has each key once; a list may repeat a name
Selections(svc) ==
    IF svc = "bdtopo" THEN {s \in SeqsUpTo(BdtopoLayers, MaxLayers) : DistinctKeys(s)}
    ELSE IF svc = "bdtopage" THEN SeqsUpTo(BdtopageLayers, MaxLayers)
    ELSE {<<RpgLayer>>}

\* what _get_wfs_feature_type_names may return (<<>> also when it fails)
AvailableChoices == {<<>>, <<<<"B", ":", "H", "A", "I", "E">>>>}

\* what _get_wfs_output_formats may return (<<>> also when it fails)
DeclaredChoices ==
    { <<>>,
      << <<"S", "H", "A", "P", "E", "-", "Z", "I", "P">>, <<"t", "e", "x", "t", "/", "x", "m", "l">> >> }

\* how _set_code_lu_field ends on an extracted bundle (the ends SpecAug reaches)
AugOutcomes == {"ok", "RuntimeError", "OSError", "UnicodeDecodeError"}

IsBatch(svc) == svc \in {"bdtopo", "bdtopage"}

DiagLimit(svc) == IF svc = "bdtopo" THEN DIAG_LIMIT_BDTOPO ELSE DIAG_LIMIT

OutRoot == <<<<"o", "u", "t">>>>

\* bdtopo.py:94, bdtopage.py:164; rpg extracts into output_dir itself
LayerDir(svc, layer) ==
    IF svc = "bdtopo" THEN Append(OutRoot, LowerStr(layer.key))
    ELSE IF svc = "bdtopage" THEN Append(OutRoot, ReplaceChar(layer.key, ":", "_"))
    ELSE OutRoot

\* bdtopo.py:160
ZipPath(out_dir, typename) == Append(out_dir, ReplaceChar(typename, ":", "_") \o <<".", "z", "i", "p">>)

SkippedEntry(svc, typename, reason) ==
    IF svc = "bdtopo" THEN [typename |-> typename, reason |-> reason] ELSE [reason |-> reason]

InitBatch ==
    /\ AugIdle
    /\ ZipIdle
    /\ CallIdle
    /\ RetryIdle
    /\ b_svc \in {"bdtopo", "bdtopage", "rpg"}
    /\ b_selected \in Selections(b_svc)
    /\ b_input \in {"valid", "invalid"}
    /\ b_pc = "start"
    /\ BatchBlank

\* mtn.py:86-133: what get_emprise raises for a geometry it refuses
EmpriseRefused == OtherReason("ValueError")

\* the steps that neither read the input geometry nor compute an envelope
SameEnvelope == UNCHANGED <<b_input, b_emprise>>

\* bdtopo.py:80-90, bdtopage.py:156-161
BatchStart ==
    /\ b_pc = "start"
    /\ b_emprise' = IF b_svc = "bdtopo" THEN b_emprise + 1 ELSE b_emprise
    /\ IF b_svc = "bdtopo" /\ b_input = "invalid"
       THEN /\ b_exc' = EmpriseRefused
            /\ b_pc' = "raised"
            /\ UNCHANGED <<b_svc, b_selected, b_available, b_i, b_candidates, b_ci,
                           b_formats, b_fi, b_dl_error, b_last_error, b_typename,
                           b_shp_path, b_result, b_skipped, b_requests, b_nformats,
                           b_attempt, b_failed, b_outcome>>
       ELSE \E names \in IF b_svc = "bdtopo" THEN AvailableChoices ELSE {<<>>} :
               /\ b_available' = names
               /\ b_i' = 1
               /\ b_pc' = "layer"
               /\ UNCHANGED <<b_svc, b_selected, b_candidates, b_ci, b_formats, b_fi,
                              b_dl_error, b_last_error, b_typename, b_shp_path,
                              b_result, b_skipped, b_exc, b_requests, b_nformats,
                              b_attempt, b_failed, b_outcome>>
    /\ UNCHANGED b_input
    /\ OnlyBatch

\* bdtopo.py:92-98, bdtopage.py:163-165: the next layer is taken up
LayerBegin ==
    /\ b_pc = "layer"
    /\ b_i <= Len(b_selected)
    /\ LET layer == b_selected[b_i] IN
          /\ b_candidates' = IF b_svc = "bdtopo"
                            THEN ResolveTypenameCandidates(layer.typename, b_available)
                            ELSE <<layer.typename>>
          /\ b_ci' = 1
          /\ b_last_error' = NoReason
          /\ b_typename' = layer.typename
          /\ b_shp_path' = <<>>
          /\ b_requests' = <<>>
          /\ b_nformats' = <<>>
          /\ b_outcome' = "none"
          /\ b_pc' = "cand"
          /\ UNCHANGED <<b_svc, b_selected, b_available, b_i, b_formats, b_fi,
                         b_dl_error, b_result, b_skipped, b_exc, b_attempt,
                         b_failed>>
    /\ SameEnvelope
    /\ OnlyBatch

\* bdtopo.py:129, bdtopage.py:180  return of the report
BatchReturn ==
    /\ b_pc = "layer"
    /\ b_i > Len(b_selected)
    /\ /\ b_pc' = "returned"
       /\ UNCHANGED <<b_svc, b_selected, b_available, b_i, b_candidates, b_ci,
                      b_formats, b_fi, b_dl_error, b_last_error, b_typename,
                      b_shp_path, b_result, b_skipped, b_exc, b_requests,
                      b_nformats, b_attempt, b_failed, b_outcome>>
    /\ SameEnvelope
    /\ OnlyBatch

\* the failing request without the unlink of bdtopo.py:189 and 198
AttemptFails_ArchiveKept(r, diag, wrote, written) ==
    /\ b_dl_error' = diag
    /\ b_fi' = b_fi + 1
    /\ b_attempt' = [at |-> diag.at, resp |-> r, wrote |-> wrote, opened |-> wrote,
                    diag |-> diag, written |-> written, zip_left |-> wrote]
    /\ b_requests' = Append(b_requests, [ci |-> b_ci, fi |-> b_fi, got |-> FALSE])
    /\ UNCHANGED <<b_svc, b_selected, b_available, b_pc, b_i, b_candidates, b_ci,
                   b_formats, b_last_error, b_typename, b_shp_path, b_result,
                   b_skipped, b_exc, b_nformats, b_failed, b_outcome>>

\* the request of this step is answered, and the format loop goes on
AttemptFails(r, diag, wrote, written) ==
    /\ b_dl_error' = diag
    /\ b_fi' = b_fi + 1
    /\ b_attempt' = [at |-> diag.at, resp |-> r, wrote |-> wrote, opened |-> wrote,
                    diag |-> diag, written |-> written, zip_left |-> FALSE]
    /\ b_requests' = Append(b_requests, [ci |-> b_ci, fi |-> b_fi, got |-> FALSE])
    /\ UNCHANGED <<b_svc, b_selected, b_available, b_pc, b_i, b_candidates, b_ci,
                   b_formats, b_last_error, b_typename, b_shp_path, b_result,
                   b_skipped, b_exc, b_nformats, b_failed, b_outcome>>

\* the layer ends without a result entry; a batch goes on with the next layer
LayerSkipped(reason, outcome, attempt, requests) ==
    /\ b_skipped' = DictSet(b_skipped, b_selected[b_i].key,
                            SkippedEntry(b_svc, b_typename, reason))
    /\ b_failed' = b_failed + 1
    /\ b_outcome' = outcome
    /\ b_attempt' = attempt
    /\ b_requests' = requests
    /\ b_formats' = <<>>
    /\ b_fi' = 0
    /\ b_dl_error' = NoDiag
    /\ b_i' = b_i + 1
    /\ b_pc' = "layer"
    /\ UNCHANGED <<b_svc, b_selected, b_available, b_candidates, b_ci, b_last_error,
                   b_typename, b_shp_path, b_result, b_exc, b_nformats>>

\* an exception leaves the call
Propagates(reason, attempt, requests) ==
    /\ b_exc' = reason
    /\ b_outcome' = "fetchfailed"
    /\ b_attempt' = attempt
    /\ b_requests' = requests
    /\ b_formats' = <<>>
    /\ b_fi' = 0
    /\ b_dl_error' = NoDiag
    /\ b_pc' = "raised"
    /\ UNCHANGED <<b_svc, b_selected, b_available, b_i, b_candidates, b_ci,
                   b_last_error, b_typename, b_shp_path, b_result, b_skipped,
                   b_nformats, b_failed>>

\* an exception leaves the fetch of the layer: bdtopo.py:111 lets all but
\* RuntimeError pass, bdtopage.py:177 catches every Exception
FetchRaises(reason, attempt, requests) ==
    IF b_svc = "bdtopage"
    THEN LayerSkipped(reason, "fetchfailed", attempt, requests)
    ELSE Propagates(reason, attempt, requests)

\* bdtopo.py:193-195, bdtopage.py:131-133 and 175-176: a .shp was extracted
Fetched(shp, candidate, attempt, requests) ==
    IF b_svc = "bdtopo"
    THEN /\ b_shp_path' = shp
         /\ b_typename' = candidate
         /\ b_attempt' = attempt
         /\ b_requests' = requests
         /\ b_formats' = <<>>
         /\ b_fi' = 0
         /\ b_dl_error' = NoDiag
         /\ b_pc' = "augment"
         /\ UNCHANGED <<b_svc, b_selected, b_available, b_i, b_candidates, b_ci,
                        b_last_error, b_result, b_skipped, b_exc, b_nformats,
                        b_failed, b_outcome>>
    ELSE IF b_svc = "bdtopage"
    THEN /\ b_result' = DictSet(b_result, b_selected[b_i].key, [shp_path |-> shp])
         /\ b_outcome' = "fetched"
         /\ b_attempt' = attempt
         /\ b_requests' = requests
         /\ b_formats' = <<>>
         /\ b_fi' = 0
         /\ b_dl_error' = NoDiag
         /\ b_i' = b_i + 1
         /\ b_pc' = "layer"
         /\ UNCHANGED <<b_svc, b_selected, b_available, b_candidates, b_ci,
                        b_last_error, b_typename, b_shp_path, b_skipped,
                        b_exc, b_nformats, b_failed>>
    ELSE /\ b_shp_path' = shp
         /\ b_outcome' = "fetched"
         /\ b_attempt' = attempt
         /\ b_requests' = requests
         /\ b_formats' = <<>>
         /\ b_fi' = 0
         /\ b_dl_error' = NoDiag
         /\ b_pc' = "returned"
         /\ UNCHANGED <<b_svc, b_selected, b_available, b_i, b_candidates, b_ci,
                        b_last_error, b_typename, b_result, b_skipped, b_exc,
                        b_nformats, b_failed>>

\* bdtopo.py:99-100 with 151-161, bdtopage.py:76-102, rpg.py:59-82: a download
\* starts for the next type-name candidate with the formats negotiated for it;
\* the single-layer fetches of bdtopage and rpg first compute the envelope
DownloadBegin ==
    /\ b_pc = "cand"
    /\ b_ci <= Len(b_candidates)
    /\ b_emprise' = IF b_svc = "bdtopo" THEN b_emprise ELSE b_emprise + 1
    /\ IF b_svc # "bdtopo" /\ b_input = "invalid"
       THEN FetchRaises(EmpriseRefused, b_attempt, b_requests)
       ELSE \E declared_formats \in DeclaredChoices :
               /\ b_formats' = CandidateFormats(declared_formats)
               /\ b_fi' = 1
               /\ b_dl_error' = NoDiag
               /\ b_nformats' = Append(b_nformats, Len(CandidateFormats(declared_formats)))
               /\ b_pc' = "fmt"
               /\ UNCHANGED <<b_svc, b_selected, b_available, b_i, b_candidates, b_ci,
                              b_last_error, b_typename, b_shp_path, b_result,
                              b_skipped, b_exc, b_requests, b_attempt, b_failed,
                              b_outcome>>
    /\ UNCHANGED b_input
    /\ OnlyBatch

\* bdtopo.py:163-198, bdtopage.py:103-138, rpg.py:85-120: one turn of the
\* format loop, from the request to the end of the loop body
GetFeature ==
    /\ b_pc = "fmt"
    /\ FormatsLeft(b_fi, b_formats)
    /\ \E r \in Responses :
          LET layer == b_selected[b_i]
              candidate == b_candidates[b_ci]
              at == <<b_i, b_ci, b_fi>>
              out_dir == LayerDir(b_svc, layer)
              x == SafeExtractZip(r.zip, out_dir)
              shp_files == SelectSeq(x.extracted, IsShp)
              Did(got) == Append(b_requests, [ci |-> b_ci, fi |-> b_fi, got |-> got])
              Att(diag, left) == [at |-> at, resp |-> r, wrote |-> TRUE, opened |-> TRUE,
                                  diag |-> diag, written |-> x.written, zip_left |-> left]
          IN IF r.net
             THEN AttemptFails(r, Diag("Erreur reseau", at, 15 + r.textlen), FALSE, {})
             ELSE IF r.status # 200
             THEN AttemptFails(r, Diag("HTTP", at, 10 + r.textlen), FALSE, {})
             ELSE IF IsXmlAnswer(r)
             THEN AttemptFails(r, Diag("text", at, r.textlen), FALSE, {})
             ELSE IF x.exc \in {"RuntimeError:invalid", "RuntimeError:zipslip"}
             THEN AttemptFails(r, ShortDiag(x.exc, at), TRUE, x.written)
             ELSE IF x.exc # "none"
             THEN FetchRaises(OtherReason(x.exc), Att(ShortDiag(x.exc, at), TRUE), Did(FALSE))
             ELSE IF shp_files # <<>>
             THEN Fetched(shp_files[1], candidate, Att(NoDiag, FALSE), Did(TRUE))
             ELSE AttemptFails(r, ShortDiag("Aucun .shp", at), TRUE, x.written)
    /\ SameEnvelope
    /\ OnlyBatch

\* bdtopo.py:199 (caught at 111-113), bdtopage.py:141 (caught at 177-178),
\* rpg.py:122: no format is left
FormatsExhausted ==
    /\ b_pc = "fmt"
    /\ ~FormatsLeft(b_fi, b_formats)
    /\ LET e == Exhausted(b_candidates[b_ci], b_dl_error, DiagLimit(b_svc)) IN
          IF b_svc = "bdtopo"
          THEN /\ b_last_error' = e
               /\ b_ci' = b_ci + 1
               /\ b_formats' = <<>>
               /\ b_fi' = 0
               /\ b_dl_error' = NoDiag
               /\ b_pc' = "cand"
               /\ UNCHANGED <<b_svc, b_selected, b_available, b_i, b_candidates,
                              b_typename, b_shp_path, b_result,
                              b_skipped, b_exc, b_requests, b_nformats,
                              b_attempt, b_failed, b_outcome>>
          ELSE FetchRaises(e, b_attempt, b_requests)
    /\ SameEnvelope
    /\ OnlyBatch

\* bdtopo.py:115-117: no candidate gave a shapefile
CandidatesExhausted ==
    /\ b_pc = "cand"
    /\ b_ci > Len(b_candidates)
    /\ LayerSkipped(IF b_last_error = NoReason THEN OtherReason("Layer introuvable")
                    ELSE b_last_error,
                    "fetchfailed", b_attempt, b_requests)
    /\ SameEnvelope
    /\ OnlyBatch

\* bdtopo.py:119-127
Augment ==
    /\ b_pc = "augment"
    /\ \E end \in AugOutcomes :
          LET layer == b_selected[b_i] IN
          IF end = "ok"
          THEN /\ b_result' = DictSet(b_result, layer.key,
                                      [typename |-> b_typename, code_lu |-> CodeFor(layer.key),
                                       shp_path |-> b_shp_path])
               /\ b_outcome' = "fetched"
               /\ b_i' = b_i + 1
               /\ b_pc' = "layer"
               /\ UNCHANGED <<b_svc, b_selected, b_available, b_candidates, b_ci,
                              b_formats, b_fi, b_dl_error, b_last_error,
                              b_typename, b_shp_path, b_skipped, b_exc,
                              b_requests, b_nformats, b_attempt,
                              b_failed>>
          ELSE LayerSkipped(OtherReason("Erreur lors de l'ajout du CODE_LU"), "augmentfailed",
                            b_attempt, b_requests)
    /\ SameEnvelope
    /\ OnlyBatch

NextBatch ==
    \/ BatchStart
    \/ LayerBegin
    \/ BatchReturn
    \/ DownloadBegin
    \/ GetFeature
    \/ FormatsExhausted
    \/ CandidatesExhausted
    \/ Augment

SpecBatch == InitBatch /\ [][NextBatch]_vars

\* ===================== SpecFormats: the format negotiation of a layer fetch
MaxDeclared == 5

TEXT_XML == <<"t", "e", "x", "t", "/", "x", "m", "l">>

ZIP_CAPITALISED == <<"Z", "i", "p">>

\* tokens a capabilities document may advertise
DeclaredTokens == SeqToSet(fallback_formats) \cup {TEXT_XML, ZIP_CAPITALISED}

\* the lists the probe can return: no token twice in the same spelling
DeclaredLists(n) ==
    {l \in UNION {[1..k -> DeclaredTokens] : k \in 0..n} :
        \A i, j \in 1..Len(l) : l[i] = l[j] => i = j}

InitFormats ==
    /\ AugIdle
    /\ ZipIdle
    /\ BatchIdle
    /\ RetryIdle
    /\ f_fn = "candidate_formats"
    /\ f_args \in DeclaredLists(MaxDeclared)
    /\ f_pc = "call"
    /\ f_ret = <<>>

\* bdtopo.py:151-158, bdtopage.py:93-100, rpg.py:75-82
NegotiateFormats ==
    /\ f_fn = "candidate_formats"
    /\ f_pc = "call"
    /\ f_ret' = CandidateFormats(f_args)
    /\ f_pc' = "returned"
    /\ UNCHANGED <<f_fn, f_args>>
    /\ OnlyCall

NextFormats == NegotiateFormats

SpecFormats == InitFormats /\ [][NextFormats]_vars

\* =========================== SpecResolve: _resolve_typename_candidates(d, A)
MaxNames == 3

\* desired identifiers: plain, with blanks around it, qualified
DesiredNames == {<<"f", "o">>, <<" ", "f", "o">>, <<"n", ":", "f", "o">>}

\* names a capabilities document may list (each holds a ':', bdtopo.py:321)
AdvertisedNames == {<<"n", ":", "F", "O">>, <<"N", ":", "f", "o">>, <<"x", ":", "f", "o", "x">>, <<"f", "o", ":", "x">>, <<"o", ":", "b">>}

\* the lists _get_wfs_feature_type_names can return: no name twice
AvailableLists(n) ==
    {l \in UNION {[1..k -> AdvertisedNames] : k \in 0..n} :
        \A i, j \in 1..Len(l) : l[i] = l[j] => i = j}

InitResolve ==
    /\ AugIdle
    /\ ZipIdle
    /\ BatchIdle
    /\ RetryIdle
    /\ f_fn = "_resolve_typename_candidates"
    /\ f_args \in [typename : DesiredNames, available_names : AvailableLists(MaxNames)]
    /\ f_pc = "call"
    /\ f_ret = <<>>

\* bdtopo.py:327-343
ResolveCandidates ==
    /\ f_fn = "_resolve_typename_candidates"
    /\ f_pc = "call"
    /\ f_ret' = ResolveTypenameCandidates(f_args.typename, f_args.available_names)
    /\ f_pc' = "returned"
    /\ UNCHANGED <<f_fn, f_args>>
    /\ OnlyCall

NextResolve == ResolveCandidates

SpecResolve == InitResolve /\ [][NextResolve]_vars

\* ============ SpecProbe: _get_wfs_output_formats, _get_wfs_feature_type_names
MaxElems == 3

\* an element of the parsed capabilities document: elem.tag, elem.text
\* (<<>> for a text that is None or empty)
Elem(tag, text) == [tag |-> tag, text |-> text]

TAG_VALUE == <<"{", "o", "}", "V", "a", "l", "u", "e">>

TAG_NAME == <<"N", "a", "m", "e">>

TAG_FORMAT == <<"F", "o", "r", "m", "a", "t">>

ElemChoices ==
    { Elem(TAG_VALUE, <<"z", "i", "p">>), Elem(TAG_VALUE, <<" ", "Z", "I", "P", " ">>), Elem(TAG_VALUE, <<" ">>),
      Elem(TAG_NAME, <<"n", ":", "f", "o">>), Elem(TAG_NAME, <<"N", ":", "F", "O">>), Elem(TAG_NAME, <<"f", "o">>),
      Elem(TAG_FORMAT, <<"z", "i", "p">>) }

\* the answer to GetCapabilities: `parse` is what ET.fromstring does with the
\* body ("ok", or the exception it raises)
CapsResponse(net, status, parse, elems) ==
    [net |-> net, status |-> status, parse |-> parse, elems |-> elems]

\* ET.ParseError: not well formed; LookupError: the XML declaration names an
\* encoding Python does not know; ValueError: it names a multi-byte encoding
ParseOutcomes == {"ParseError", "LookupError", "ValueError"}

CapsResponses(n) ==
    {CapsResponse("error", 0, "ok", <<>>), CapsResponse("ok", 503, "ok", <<>>)}
    \cup {CapsResponse("ok", 200, x, <<>>) : x \in ParseOutcomes}
    \cup {CapsResponse("ok", 200, "ok", d) : d \in UNION {[1..k -> ElemChoices] : k \in 0..n}}

Returned(value) == [exc |-> "none", value |-> value]

Raised(exc) == [exc |-> exc, value |-> <<>>]

\* the stripped texts of the elements that pass `Keep`, in document order
StrippedTexts(elems, Keep(_)) ==
    LET kept == SelectSeq(elems, Keep)
    IN [i \in 1..Len(kept) |-> StripStr(kept[i].text)]

\* bdtopage.py:216-225, rpg.py:150-159  the first spelling of each token
RECURSIVE UniqIgnoringCase(_, _)
UniqIgnoringCase(uniq, values) ==
    IF values = <<>> THEN uniq
    ELSE UniqIgnoringCase(
             IF \E i \in 1..Len(uniq) : LowerStr(uniq[i]) = LowerStr(Head(values))
             THEN uniq ELSE Append(uniq, Head(values)),
             Tail(values))

\* bdtopo.py:285-303, bdtopage.py:192-225, rpg.py:125-159
GetWfsOutputFormats(svc, r) ==
    LET IsValue(e) == /\ EndsWith(LowerStr(e.tag), <<"v", "a", "l", "u", "e">>)
                      /\ e.text # <<>>
                      /\ StripStr(e.text) # <<>>
        values == StrippedTexts(r.elems, IsValue)
    IN IF r.net = "error" THEN Returned(<<>>)
       ELSE IF r.status # 200 THEN Returned(<<>>)
       ELSE IF r.parse = "ParseError" THEN Returned(<<>>)
       ELSE IF r.parse # "ok" THEN Raised(r.parse)
       ELSE IF svc = "bdtopo" THEN Returned(AppendNew(<<>>, values))
       ELSE Returned(UniqIgnoringCase(<<>>, values))

\* bdtopo.py:306-324
GetWfsFeatureTypeNames(r) ==
    LET IsName(e) == /\ EndsWith(LowerStr(e.tag), <<"n", "a", "m", "e">>)
                     /\ e.text # <<>>
                     /\ ":" \in SeqToSet(StripStr(e.text))
        names == StrippedTexts(r.elems, IsName)
    IN IF r.net = "error" THEN Returned(<<>>)
       ELSE IF r.status # 200 THEN Returned(<<>>)
       ELSE IF r.parse = "ParseError" THEN Returned(<<>>)
       ELSE IF r.parse # "ok" THEN Raised(r.parse)
       ELSE Returned(AppendNew(<<>>, names))

InitProbe ==
    /\ AugIdle
    /\ ZipIdle
    /\ BatchIdle
    /\ RetryIdle
    /\ f_fn \in {"_get_wfs_output_formats", "_get_wfs_feature_type_names"}
    /\ f_args \in [svc : IF f_fn = "_get_wfs_feature_type_names" THEN {"bdtopo"}
                          ELSE {"bdtopo", "bdtopage", "rpg"},
                    response : CapsResponses(MaxElems)]
    /\ f_pc = "call"
    /\ f_ret = <<>>

\* the caller's view of the end of a call
CallEnds(out) ==
    /\ f_pc' = IF out.exc = "none" THEN "returned" ELSE "raised"
    /\ f_ret' = IF out.exc = "none" THEN out.value ELSE out.exc
    /\ UNCHANGED <<f_fn, f_args>>

ProbeOutputFormats ==
    /\ f_fn = "_get_wfs_output_formats"
    /\ f_pc = "call"
    /\ CallEnds(GetWfsOutputFormats(f_args.svc, f_args.response))
    /\ OnlyCall

ProbeFeatureTypeNames ==
    /\ f_fn = "_get_wfs_feature_type_names"
    /\ f_pc = "call"
    /\ CallEnds(GetWfsFeatureTypeNames(f_args.response))
    /\ OnlyCall

NextProbe == ProbeOutputFormats \/ ProbeFeatureTypeNames

SpecProbe == InitProbe /\ [][NextProbe]_vars

\* ================================================ SpecEmprise: get_emprise
MaxPoints == 2

MaxFeatures == 2

\* a parsed JSON value: k is its kind, v its content (the members of an object
\* as a function of their keys; a text as characters where the code looks
\* inside it)
JNull == [k |-> "null", v |-> 0]

JNum(n) == [k |-> "num", v |-> n]

JStr(t) == [k |-> "str", v |-> t]

JList(items) == [k |-> "list", v |-> items]

JObj(members) == [k |-> "obj", v |-> members]

\* dict.get(key): None when the key is missing
Get(obj, key) == IF key \in DOMAIN obj.v THEN obj.v[key] ELSE JNull

\* mtn.py:38-48
RECURSIVE IterPoints(_)
IterPoints(coords) ==
    IF coords.k # "list" \/ coords.v = <<>> THEN <<>>
    ELSE IF Len(coords.v) >= 2 /\ coords.v[1].k = "num" /\ coords.v[2].k = "num"
    THEN << <<coords.v[1].v, coords.v[2].v>> >>
    ELSE LET F[i \in 0..Len(coords.v)] ==
                 IF i = 0 THEN <<>> ELSE F[i - 1] \o IterPoints(coords.v[i])
         IN F[Len(coords.v)]

\* mtn.py:51-66
IterGeometries(payload) ==
    LET geo_type == Get(payload, "type")
        features == IF "features" \in DOMAIN payload.v THEN payload.v["features"].v ELSE <<>>
        HasGeometry(feature) == feature.k = "obj" /\ Get(feature, "geometry").k = "obj"
        with_geometry == SelectSeq(features, HasGeometry)
    IN IF geo_type.k = "str" /\ geo_type.v = "FeatureCollection"
       THEN [i \in 1..Len(with_geometry) |-> Get(with_geometry[i], "geometry")]
       ELSE IF geo_type.k = "str" /\ geo_type.v = "Feature" /\ Get(payload, "geometry").k = "obj"
       THEN <<Get(payload, "geometry")>>
       ELSE IF Get(payload, "coordinates").k = "list" THEN <<payload>>
       ELSE <<>>

EPSG_CODE == <<"2", "1", "5", "4">>

\* mtn.py:69-83  TRUE when the declared CRS is refused
RefusesCrs(payload) ==
    LET crs_obj == Get(payload, "crs")
        props == Get(crs_obj, "properties")
        name == IF "name" \in DOMAIN props.v THEN StripStr(props.v["name"].v) ELSE <<>>
    IN /\ crs_obj.k = "obj"
       /\ props.k = "obj"
       /\ name # <<>>
       /\ ~Contains(name, EPSG_CODE)

NoBox == [seen |-> FALSE, minx |-> 0, miny |-> 0, maxx |-> 0, maxy |-> 0]

\* a variant that keeps the first point's box
Accumulate_FirstPointOnly(box, pt) ==
    IF ~box.seen
    THEN [seen |-> TRUE, minx |-> pt[1], miny |-> pt[2], maxx |-> pt[1], maxy |-> pt[2]]
    ELSE box

\* mtn.py:112-120
Accumulate(box, pt) ==
    IF ~box.seen
    THEN [seen |-> TRUE, minx |-> pt[1], miny |-> pt[2], maxx |-> pt[1], maxy |-> pt[2]]
    ELSE [seen |-> TRUE,
          minx |-> Min(box.minx, pt[1]), miny |-> Min(box.miny, pt[2]),
          maxx |-> Max(box.maxx, pt[1]), maxy |-> Max(box.maxy, pt[2])]

\* mtn.py:105-120  the loop over the geometries and their points
Scan(payload) ==
    LET geoms == IterGeometries(payload)
        G[i \in 0..Len(geoms)] ==
            IF i = 0 THEN NoBox
            ELSE LET pts == IterPoints(Get(geoms[i], "coordinates"))
                     P[j \in 0..Len(pts)] ==
                         IF j = 0 THEN G[i - 1] ELSE Accumulate(P[j - 1], pts[j])
                 IN P[Len(pts)]
    IN G[Len(geoms)]

\* a variant that returns the box as scanned
Expand_NoBuffer(box, buffer) ==
    [xmin |-> box.minx, ymin |-> box.miny, xmax |-> box.maxx, ymax |-> box.maxy]

\* mtn.py:128-133
Expand(box, buffer) ==
    [xmin |-> box.minx - buffer, ymin |-> box.miny - buffer,
     xmax |-> box.maxx + buffer, ymax |-> box.maxy + buffer]

\* mtn.py:100-133  (the file holds `payload`)
GetEmprise(payload, buffer) ==
    IF payload.k # "obj" THEN Raised("ValueError: objet GeoJSON")
    ELSE IF RefusesCrs(payload) THEN Raised("ValueError: CRS non supporte")
    ELSE IF ~Scan(payload).seen THEN Raised("ValueError: aucune coordonnee")
    ELSE IF buffer < 0 THEN Raised("ValueError: buffer")
    ELSE Returned(Expand(Scan(payload), buffer))

\* ---- inputs
Ordinates == {-2, 3}

Position(x, y) == JList(<<JNum(x), JNum(y)>>)

\* a position with an elevation
Position3(x, y) == JList(<<JNum(x), JNum(y), JNum(7)>>)

Positions == {Position(x, y) : x, y \in Ordinates}

\* one position, bare, with an elevation, or nested one or two levels deep
SinglePointCoords(x, y) ==
    {Position(x, y), Position3(x, y), JList(<<Position3(x, y)>>),
     JList(<<JList(<<Position(x, y)>>)>>)}

CoordinateChoices(n) ==
    UNION {SinglePointCoords(x, y) : x, y \in Ordinates}
    \cup {JList(l) : l \in UNION {[1..k -> Positions] : k \in 0..n}}
    \cup {JNull, JList(<<JNum(3)>>)}

Geometry(coords) == JObj("type" :> JStr("MultiPoint") @@ "coordinates" :> coords)

Feature(geometry) == JObj("type" :> JStr("Feature") @@ "geometry" :> geometry)

FeatureCollection(features) ==
    JObj("type" :> JStr("FeatureCollection") @@ "features" :> JList(features))

FeatureChoices ==
    {Feature(Geometry(Position(-2, 3))), Feature(Geometry(Position3(3, -2))),
     Feature(Geometry(JList(<<Position(3, 3), Position(-2, -2)>>))),
     Feature(JNull), JNull}

Bodies(points, features) ==
    {Geometry(c) : c \in CoordinateChoices(points)}
    \cup {Feature(Geometry(c)) : c \in CoordinateChoices(points)}
    \cup {FeatureCollection(fs) : fs \in UNION {[1..k -> FeatureChoices] : k \in 0..features}}
    \cup {Feature(JNull), JObj("type" :> JStr("FeatureCollection")), JList(<<>>)}

NamedCrs(name) == JObj("type" :> JStr("name") @@ "properties" :> JObj("name" :> JStr(name)))

\* JNull: no "crs" member
CrsChoices ==
    {JNull, NamedCrs(<<"E", "P", "S", "G", ":", "2", "1", "5", "4">>), NamedCrs(<<"u", "r", "n", ":", "o", "g", "c", ":", "d", "e", "f", ":", "c", "r", "s", ":", "E", "P", "S", "G", ":", ":", "2", "1", "5", "4">>), NamedCrs(<<"E", "P", "S", "G", ":", "4", "3", "2", "6">>), NamedCrs(<<"E", "P", "S", "G", ":", "3", "2", "1", "5", "4">>), NamedCrs(<<" ">>)}

Buffers == {-1, 0, 5}

\* the document of the input file
Payload(body, crs) ==
    IF body.k = "obj" /\ crs # JNull THEN JObj(body.v @@ "crs" :> crs) ELSE body

InitEmprise ==
    /\ AugIdle
    /\ ZipIdle
    /\ BatchIdle
    /\ RetryIdle
    /\ f_fn = "get_emprise"
    /\ f_args \in [body : Bodies(MaxPoints, MaxFeatures), crs : CrsChoices, buffer : Buffers]
    /\ f_pc = "call"
    /\ f_ret = <<>>

CallGetEmprise ==
    /\ f_fn = "get_emprise"
    /\ f_pc = "call"
    /\ CallEnds(GetEmprise(Payload(f_args.body, f_args.crs), f_args.buffer))
    /\ OnlyCall

NextEmprise == CallGetEmprise

SpecEmprise == InitEmprise /\ [][NextEmprise]_vars

\* ================== SpecRetry: the GET requests of a layer fetch, by sends
MaxPairs == 2

\* bdtopo.py:51  status_forcelist
STATUS_FORCELIST == {429, 500, 502, 503, 504}

\* urllib3 Retry.RETRY_AFTER_STATUS_CODES (respect_retry_after_header is on)
RETRY_AFTER_STATUS_CODES == {413, 429, 503}

Outcomes ==
    { Outcome("connect_error", 0, FALSE, FALSE), Outcome("read_error", 0, FALSE, FALSE),
      Outcome("response", 200, FALSE, TRUE), Outcome("response", 200, FALSE, FALSE),
      Outcome("response", 404, FALSE, FALSE), Outcome("response", 503, FALSE, FALSE),
      Outcome("response", 413, TRUE, FALSE), Outcome("response", 413, FALSE, FALSE) }

\* a variant in which a GET goes on with the Retry object the last one left
NextRetryObject_Leftover(left) == left

\* HTTP_SESSION.get: the adapter hands its own Retry object to each request
NextRetryObject(left) == RetryConfig

\* Retry.is_retry for a GET
IsRetry(retry, o) ==
    \/ o.status \in STATUS_FORCELIST
    \/ retry.total # 0 /\ o.retry_after /\ o.status \in RETRY_AFTER_STATUS_CODES

\* Retry.increment
Increment(retry, o) ==
    [total |-> retry.total - 1,
     connect |-> IF o.kind = "connect_error" THEN retry.connect - 1 ELSE retry.connect,
     read |-> IF o.kind = "read_error" THEN retry.read - 1 ELSE retry.read,
     status |-> IF o.kind = "response" THEN retry.status - 1 ELSE retry.status]

\* Retry.is_exhausted
IsExhausted(retry) ==
    retry.total < 0 \/ retry.connect < 0 \/ retry.read < 0 \/ retry.status < 0

InitRetry ==
    /\ AugIdle
    /\ ZipIdle
    /\ BatchIdle
    /\ CallIdle
    /\ r_pairs \in 1..MaxPairs
    /\ r_pair = 1
    /\ r_pc = "loop"
    /\ r_retry = RetryConfig
    /\ r_sent = 0
    /\ r_last = NoOutcome
    /\ r_log = <<>>

\* bdtopo.py:163-170  the loop takes the next pair and calls HTTP_SESSION.get
GetBegin ==
    /\ r_pc = "loop"
    /\ r_pair <= r_pairs
    /\ r_pc' = "send"
    /\ r_retry' = NextRetryObject(r_retry)
    /\ r_sent' = 0
    /\ r_last' = NoOutcome
    /\ UNCHANGED <<r_pairs, r_pair, r_log>>
    /\ OnlyRetry

\* the GET ends: RequestException, an unusable answer (bdtopo.py:171-198:
\* continue) or a bundle (193-195: return)
GetEnds(o, sent) ==
    /\ r_log' = Append(r_log, sent)
    /\ r_pc' = IF o.kind = "response" /\ o.status = 200 /\ o.usable THEN "returned" ELSE "loop"
    /\ r_pair' = r_pair + 1
    /\ UNCHANGED <<r_pairs, r_retry>>

\* one transmission of the running GET, and what the Retry object makes of
\* its outcome (raise_on_status=False: the last response is handed back)
Transmit ==
    /\ r_pc = "send"
    /\ \E o \in Outcomes :
          LET retried == o.kind # "response" \/ IsRetry(r_retry, o)
              left == Increment(r_retry, o)
          IN /\ r_sent' = r_sent + 1
             /\ r_last' = o
             /\ IF retried /\ ~IsExhausted(left)
                THEN /\ r_retry' = left
                     /\ UNCHANGED <<r_pairs, r_pair, r_pc, r_log>>
                ELSE GetEnds(o, r_sent + 1)
    /\ OnlyRetry

\* bdtopo.py:199  no pair is left
PairsExhausted ==
    /\ r_pc = "loop"
    /\ r_pair > r_pairs
    /\ r_pc' = "failed"
    /\ UNCHANGED <<r_pairs, r_pair, r_retry, r_sent, r_last, r_log>>
    /\ OnlyRetry

NextRetry == GetBegin \/ Transmit \/ PairsExhausted

SpecRetry == InitRetry /\ [][NextRetry]_vars /\ WF_vars(NextRetry)

\* ------------------------------------------------ observations of a bundle
\* the value of field j of record i as a reader opened by
\* _open_shapefile_reader_with_fallback returns it (<<FALSE, _>>: undecodable)
ValueAt(dbf, i, j) == ReadCell(dbf.fields[j], dbf.rows[i][j], OpenReaderWithFallback(dbf))

CodeLuCount(dbf) == Cardinality({j \in 1..Len(dbf.fields) : dbf.fields[j].name = CODE_LU})

SameGeometry(old, new) == new["shp"].shapes = old["shp"].shapes /\ new["shx"].n = old["shx"].n

SameOtherValues(old, new) ==
    /\ Len(new.rows) = Len(old.rows)
    /\ \A i \in 1..Len(old.rows) : \A j \in 1..Len(old.fields) :
          old.fields[j].name # CODE_LU => ValueAt(new, i, j) = ValueAt(old, i, j)

CodeLuIs(dbf, j, c) == \A i \in 1..Len(dbf.rows) : ValueAt(dbf, i, j) = <<TRUE, IntVal(c)>>

\* ------------------------------------------------------------------ claims
\* C3: at every point of _set_code_lu_field the bundle's .shp, .shx and .dbf
\* are all three the files the call found or all three the files it wrote.
C3_AllOriginalOrAllRewritten ==
    /\ a_fs["shp"].gen = a_fs["shx"].gen
    /\ a_fs["shx"].gen = a_fs["dbf"].gen

\* C4: when _set_code_lu_field raises, no temporary file is left and the
\* .shp, .shx and .dbf are the ones the call found.
C4_FailureIsClean ==
    a_pc = "raised" =>
        /\ \A k \in 1..Len(Exts) : a_fs[Tmp(Exts[k])] = NoFile
        /\ \A k \in 1..Len(Exts) : a_fs[Exts[k]] = a_snap[Exts[k]]

\* C9: a second application with the same code changes neither the record
\* count, nor a non-classification value, nor a geometry, and leaves exactly
\* one CODE_LU field.
C9_SecondApplicationChangesNothing ==
    (a_pc = "returned" /\ a_calls = 2) =>
        /\ SameGeometry(a_first, a_fs)
        /\ SameOtherValues(a_first["dbf"], a_fs["dbf"])
        /\ CodeLuCount(a_fs["dbf"]) = 1

\* C10: after a successful call the schema keeps every field in place, the
\* records keep geometry and other values, and CODE_LU (overwritten where it
\* was, or appended last as N/10/0) holds the code in every record.
C10_Postcondition ==
    (a_pc = "returned" /\ a_calls = 1) =>
        LET old == a_snap["dbf"]
            new == a_fs["dbf"]
        IN /\ \A j \in 1..Len(old.fields) : new.fields[j] = old.fields[j]
           /\ SameGeometry(a_snap, a_fs)
           /\ SameOtherValues(old, new)
           /\ IF HasCodeLu(old.fields)
              THEN /\ Len(new.fields) = Len(old.fields)
                   /\ CodeLuIs(new, CodeIdx(old.fields), a_code)
              ELSE /\ new.fields = Append(old.fields, CodeLuField)
                   /\ CodeLuIs(new, Len(new.fields), a_code)

\* the target of a member, resolved from the file system's root
ResolvesOutside(dir, name) == ~IsPrefix(dir, ResolveFrom(<<>>, Join(dir, name)))

HasEscapingMember ==
    \E i \in 1..Len(z_archive.members) : ResolvesOutside(ZipOutDir, z_archive.members[i].name)

\* C8: an archive with a member that resolves outside the destination makes
\* _safe_extract_zip raise the path-traversal error with nothing written.
C8_TraversalWritesNothing ==
    HasEscapingMember =>
        /\ z_disk = {}
        /\ z_pc # "returned"
        /\ z_pc = "raised" => z_exc = "RuntimeError:zipslip"

\* a rejected archive whose first member was safe
C8_Witness ==
    /\ z_pc = "raised"
    /\ z_exc = "RuntimeError:zipslip"
    /\ Len(z_archive.members) >= 2
    /\ ~ResolvesOutside(ZipOutDir, z_archive.members[1].name)
    /\ z_disk = {}

\* ------------------------------------------------ observations of a fetch
RequestedKeys == {b_selected[i].key : i \in 1..Len(b_selected)}

\* an error document: non-200 status, a Content-Type with xml in it, or a
\* body that starts with an XML declaration
ErrorDocument(r) ==
    /\ ~r.net
    /\ \/ r.status # 200
       \/ Contains(LowerStr(r.ctype), <<"x", "m", "l">>)
       \/ StartsWith(r.head, <<"<", "?", "x", "m", "l">>)

FirstPairGotErrorDocument ==
    /\ b_attempt.at[2] = 1
    /\ b_attempt.at[3] = 1
    /\ ErrorDocument(b_attempt.resp)

\* the candidate pairs of the layer, each download having had its own formats
AllPairs ==
    UNION {{<<c, f>> : f \in 1..b_nformats[c]} : c \in 1..Len(b_nformats)}

Tried == {<<b_requests[k].ci, b_requests[k].fi>> : k \in 1..Len(b_requests)}

\* what the failed fetch of the last layer handled reported: the exception
\* that left the call, or the reason of the layer's skipped entry
ReportedFailure ==
    IF b_pc = "raised" THEN b_exc ELSE DictGet(b_skipped, b_selected[b_i - 1].key).reason

\* C1: when a batch call returns, the keys of report['layers'] and of
\* report['skipped'] are disjoint, together they are the requested keys, and
\* N requests of which M failed give N-M and M entries.
C1_EachKeyInExactlyOne ==
    (IsBatch(b_svc) /\ b_pc = "returned") =>
        /\ DictKeys(b_result) \cap DictKeys(b_skipped) = {}
        /\ DictKeys(b_result) \cup DictKeys(b_skipped) = RequestedKeys
        /\ Len(b_skipped) = b_failed
        /\ Len(b_result) = Len(b_selected) - b_failed

\* C2: no error raised while a layer of a batch is handled leaves the batch
\* call.
C2_LayerErrorStaysInBatch ==
    (IsBatch(b_svc) /\ b_i >= 1) => b_pc # "raised"

\* C5: an error document answering the first candidate pair is neither
\* written nor opened as an archive; its text is the diagnostic and the
\* second pair is the next to be requested.
C5_ErrorDocumentIsPassedOver ==
    FirstPairGotErrorDocument =>
        /\ ~b_attempt.wrote
        /\ ~b_attempt.opened
        /\ b_attempt.written = {}
        /\ ~b_attempt.zip_left
        /\ b_dl_error.at = b_attempt.at
        /\ b_dl_error.kind \in {"HTTP", "text"}
        /\ b_dl_error.len >= b_attempt.resp.textlen
        /\ b_pc = "fmt"
        /\ b_fi = 2
        /\ b_fi <= Len(b_formats)

\* a 200 answer without Content-Type whose body is an XML document
C5_Witness ==
    /\ FirstPairGotErrorDocument
    /\ b_attempt.resp.status = 200
    /\ b_attempt.resp.ctype = <<>>
    /\ b_dl_error.kind = "text"
    /\ b_fi = 2

\* C6: the requests of a layer start with the first pair, each next one is
\* the next format of the same type name or, all its formats tried, the
\* first format of the next type name, and none follows one that gave a .shp.
C6_TypenameOuterFormatInner ==
    /\ b_requests # <<>> => (b_requests[1].ci = 1 /\ b_requests[1].fi = 1)
    /\ \A k \in 1..(Len(b_requests) - 1) :
          LET p == b_requests[k]
              q == b_requests[k + 1]
          IN /\ ~p.got
             /\ \/ q.ci = p.ci /\ q.fi = p.fi + 1
                \/ q.ci = p.ci + 1 /\ q.fi = 1 /\ p.fi = b_nformats[p.ci]

\* the second type name gave the shapefile after every format of the first
C6_Witness ==
    /\ b_requests # <<>>
    /\ b_requests[Len(b_requests)].got
    /\ b_requests[Len(b_requests)].ci = 2
    /\ Len(b_requests) > b_nformats[1]
    /\ b_pc = "augment"

\* C7: a failed layer fetch has tried every candidate pair and reports the
\* truncated diagnostic of its last attempt.
C7_FailsOnlyWhenExhausted ==
    b_outcome = "fetchfailed" =>
        /\ Len(b_nformats) = Len(b_candidates)
        /\ Tried = AllPairs
        /\ ReportedFailure.kind = "Echec WFS SHP"
        /\ ReportedFailure.cause = Truncate(b_attempt.diag, DiagLimit(b_svc))

\* ------------------------------------------------------ format negotiation
NoTwoEqualIgnoringCase(l) ==
    \A i, j \in 1..Len(l) : LowerStr(l[i]) = LowerStr(l[j]) => i = j

\* every advertised shape-like token stands before every token that only the
\* fallback list supplies
AdvertisedFirst(declared, formats) ==
    \A t \in {x \in SeqToSet(declared) : IsShapeLike(x)} :
        \A j \in 1..Len(formats) :
            formats[j] \notin SeqToSet(declared) => \E i \in 1..(j - 1) : formats[i] = t

\* C11: the format candidates of a fetch hold no two tokens equal ignoring
\* case, and every advertised shape-like token precedes every fallback token.
C11_NoCaseDuplicateAdvertisedFirst ==
    (f_fn = "candidate_formats" /\ f_pc = "returned") =>
        /\ NoTwoEqualIgnoringCase(f_ret)
        /\ AdvertisedFirst(f_args, f_ret)

\* C12: whatever the service advertised, the format candidates are never
\* empty, so the format loop of a download sends its first request.
C12_CandidatesNeverEmpty ==
    (f_fn = "candidate_formats" /\ f_pc = "returned") =>
        /\ f_ret # <<>>
        /\ FormatsLeft(1, f_ret)

\* the advertised list already holds every fallback token
C12_Witness ==
    /\ f_fn = "candidate_formats"
    /\ f_pc = "returned"
    /\ SeqToSet(fallback_formats) \subseteq SeqToSet(f_args)
    /\ f_ret # <<>>

\* ------------------------------------------------- type-name candidates
\* the entries of s in order, each kept where it first occurs
FirstOccurrences(s) ==
    LET F[k \in 0..Len(s)] ==
            IF k = 0 THEN <<>>
            ELSE IF \E j \in 1..(k - 1) : s[j] = s[k] THEN F[k - 1]
                 ELSE Append(F[k - 1], s[k])
    IN F[Len(s)]

\* the part of a name after its last ':' (the whole name if it has none)
LocalPart(name) ==
    LET colons == {i \in 1..Len(name) : name[i] = ":"}
    IN IF colons = {} THEN name
       ELSE SubSeq(name, (CHOOSE i \in colons : \A j \in colons : j <= i) + 1, Len(name))

EqualIgnoringCase(d, name) == LowerStr(name) = LowerStr(d)

LocalPartMatches(d, name) == ":" \notin SeqToSet(d) /\ LowerStr(LocalPart(name)) = LowerStr(d)

HoldsIgnoringCase(d, name) == Contains(LowerStr(name), LowerStr(d))

\* the four rules applied to the identifier d, concatenated and de-duplicated
FourRules(d, A) ==
    LET Rule2(name) == EqualIgnoringCase(d, name)
        Rule3(name) == LocalPartMatches(d, name)
        Rule4(name) == HoldsIgnoringCase(d, name)
    IN FirstOccurrences(<<d>> \o SelectSeq(A, Rule2) \o SelectSeq(A, Rule3) \o SelectSeq(A, Rule4))

\* names matched by rule 2 or 3 stand before names matched by rule 4 only
ExactBeforeSubstring(d, l) ==
    \A i, j \in 2..Len(l) :
        /\ EqualIgnoringCase(d, l[i]) \/ LocalPartMatches(d, l[i])
        /\ ~(EqualIgnoringCase(d, l[j]) \/ LocalPartMatches(d, l[j]))
        => i < j

\* C13 as stated: the result is the de-duplicated concatenation of the four
\* rules applied to d verbatim, and names matched by rules 2 or 3 come before
\* names matched only by the substring rule.
C13_FourRulesOnVerbatimName ==
    (f_fn = "_resolve_typename_candidates" /\ f_pc = "returned") =>
        /\ f_ret = FourRules(f_args.typename, f_args.available_names)
        /\ ExactBeforeSubstring(f_args.typename, f_ret)

\* C13 (amended): the result has no repeated entry and is the de-duplicated
\* concatenation of the four rules applied to d without the white space around
\* it, so names matched by rules 2 or 3 come before names matched only by the
\* substring rule.
C13_FourRulesOnStrippedName ==
    (f_fn = "_resolve_typename_candidates" /\ f_pc = "returned") =>
        /\ \A i, j \in 1..Len(f_ret) : f_ret[i] = f_ret[j] => i = j
        /\ f_ret = FourRules(StripStr(f_args.typename), f_args.available_names)
        /\ ExactBeforeSubstring(StripStr(f_args.typename), f_ret)

\* a qualified match listed after a substring-only match, for a name given
\* with white space around it
C13_Witness ==
    /\ f_fn = "_resolve_typename_candidates"
    /\ f_pc = "returned"
    /\ f_args.typename # StripStr(f_args.typename)
    /\ \E i, j \in 1..Len(f_args.available_names) :
          /\ i < j
          /\ ~LocalPartMatches(StripStr(f_args.typename), f_args.available_names[i])
          /\ HoldsIgnoringCase(StripStr(f_args.typename), f_args.available_names[i])
          /\ LocalPartMatches(StripStr(f_args.typename), f_args.available_names[j])
    /\ Len(f_ret) >= 3

\* ------------------------------------------------------ capabilities probe
IsProbe == f_fn \in {"_get_wfs_output_formats", "_get_wfs_feature_type_names"}

\* a network error, a status other than 200, or a body that is not a parsable
\* document
ProbeFailed(r) == r.net = "error" \/ r.status # 200 \/ r.parse # "ok"

\* C14: the capabilities probe never raises; on a network error, a non-200
\* status or an unparsable document it returns the empty list, with which the
\* fetch goes on with the desired identifier and the fallback formats.
C14_ProbeNeverRaises ==
    IsProbe =>
        /\ f_pc # "raised"
        /\ (f_pc = "returned" /\ ProbeFailed(f_args.response)) =>
              /\ f_ret = <<>>
              /\ CandidateFormats(f_ret) = fallback_formats
              /\ \A d \in DesiredNames : ResolveTypenameCandidates(d, f_ret) = <<StripStr(d)>>

\* the texts of the elements the called probe reads, in document order
DocumentTexts(r) ==
    LET wanted == IF f_fn = "_get_wfs_output_formats"
                  THEN <<"v", "a", "l", "u", "e">> ELSE <<"n", "a", "m", "e">>
        Read(e) == EndsWith(LowerStr(e.tag), wanted)
        read == SelectSeq(r.elems, Read)
    IN [i \in 1..Len(read) |-> StripStr(read[i].text)]

\* each entry is spelled as the first text of the document equal to it
\* ignoring case
FirstSeenSpelling(r, l) ==
    \A i \in 1..Len(l) :
        LET texts == DocumentTexts(r)
            same == {k \in 1..Len(texts) : LowerStr(texts[k]) = LowerStr(l[i])}
        IN same # {} /\ l[i] = texts[CHOOSE k \in same : \A m \in same : k <= m]

\* C15: a list returned by the capabilities probe of any service holds no two
\* entries equal ignoring case, each in its first-seen spelling.
C15_ProbeListsUniqueIgnoringCase ==
    (IsProbe /\ f_pc = "returned") =>
        /\ NoTwoEqualIgnoringCase(f_ret)
        /\ FirstSeenSpelling(f_args.response, f_ret)

\* ---------------------------------------------------------------- envelope
\* the inputs that hold the single point (x, y)
SinglePointBodies(x, y) ==
    UNION {{Geometry(c), Feature(Geometry(c)),
            FeatureCollection(<<Feature(Geometry(c))>>),
            FeatureCollection(<<Feature(JNull), Feature(Geometry(c))>>)} :
           c \in SinglePointCoords(x, y)}

\* the two-dimensional coordinates of the input, wherever they stand
RECURSIVE AllCoordinates(_)
AllCoordinates(j) ==
    IF j.k = "obj" THEN UNION {AllCoordinates(j.v[key]) : key \in DOMAIN j.v \ {"crs"}}
    ELSE IF j.k # "list" THEN {}
    ELSE IF Len(j.v) >= 2 /\ j.v[1].k = "num" /\ j.v[2].k = "num" THEN {<<j.v[1].v, j.v[2].v>>}
    ELSE UNION {AllCoordinates(j.v[i]) : i \in 1..Len(j.v)}

\* the name of the declared coordinate system (<<>> if none is declared)
DeclaredCrsName(crs) == IF crs = JNull THEN <<>> ELSE StripStr(crs.v["properties"].v["name"].v)

\* the declaration names the code 2154 of the EPSG register
DesignatesEpsg2154(name) == LocalPart(name) = <<"2", "1", "5", "4">>

CrsAccepted(crs) == DeclaredCrsName(crs) = <<>> \/ DesignatesEpsg2154(DeclaredCrsName(crs))

EmpriseEnded == f_fn = "get_emprise" /\ f_pc \in {"returned", "raised"}

\* C16: for an input holding the single point (x, y), with or without an
\* elevation, and a buffer b >= 0, get_emprise returns exactly
\* xmin = x-b, xmax = x+b, ymin = y-b, ymax = y+b.
C16_SinglePointEnvelope ==
    EmpriseEnded =>
        \A x, y \in Ordinates :
            (f_args.body \in SinglePointBodies(x, y) /\ f_args.buffer >= 0) =>
                /\ CrsAccepted(f_args.crs) => f_pc = "returned"
                /\ f_pc = "returned" =>
                      f_ret = [xmin |-> x - f_args.buffer, xmax |-> x + f_args.buffer,
                               ymin |-> y - f_args.buffer, ymax |-> y + f_args.buffer]

\* a single point with an elevation, nested in a list, buffered by 5
C16_Witness ==
    /\ f_fn = "get_emprise"
    /\ f_pc = "returned"
    /\ f_args.body = Feature(Geometry(JList(<<Position3(3, -2)>>)))
    /\ f_args.buffer = 5
    /\ f_ret.xmin = -2
    /\ f_ret.ymax = 3

\* C17: every envelope returned satisfies xmin <= xmax and ymin <= ymax and
\* contains every two-dimensional coordinate of the input.
C17_EnvelopeContainsEveryCoordinate ==
    (f_fn = "get_emprise" /\ f_pc = "returned") =>
        /\ f_ret.xmin <= f_ret.xmax
        /\ f_ret.ymin <= f_ret.ymax
        /\ \A pt \in AllCoordinates(f_args.body) :
              /\ f_ret.xmin <= pt[1] /\ pt[1] <= f_ret.xmax
              /\ f_ret.ymin <= pt[2] /\ pt[2] <= f_ret.ymax

\* an envelope over several coordinates spread over two features
C17_Witness ==
    /\ f_fn = "get_emprise"
    /\ f_pc = "returned"
    /\ f_args.body.v["type"].v = "FeatureCollection"
    /\ Cardinality(AllCoordinates(f_args.body)) >= 3
    /\ f_args.buffer = 0
    /\ f_ret.xmin < f_ret.xmax

\* C18: get_emprise fails with an input error and returns no envelope when no
\* two-dimensional coordinate is found, when buffer < 0, and when a declared
\* coordinate system does not designate EPSG:2154.
C18_InvalidInputIsRefused ==
    LET invalid == \/ AllCoordinates(f_args.body) = {}
                   \/ f_args.buffer < 0
                   \/ ~CrsAccepted(f_args.crs)
    IN (EmpriseEnded /\ invalid) => f_pc = "raised"

\* ------------------------------------------------- replacing the originals
\* the temporary counterpart of `ext` holds everything the call had to write
TmpComplete(fs, ext, snap) ==
    /\ fs[Tmp(ext)] # NoFile
    /\ ext = "shp" => fs[Tmp(ext)].shapes = snap["shp"].shapes
    /\ ext = "shx" => fs[Tmp(ext)].n = snap["shx"].n
    /\ ext = "dbf" => Len(fs[Tmp(ext)].rows) = Len(snap["dbf"].rows)

\* a step that changes the original `Exts[k]` is the k-th rename of the final
\* loop, of a complete temporary file, after the writer was closed
ReplacedOnlyByRename(k) ==
    a_fs'[Exts[k]] # a_fs[Exts[k]] =>
        /\ a_pc = "replace"
        /\ a_exc = "none"
        /\ a_ext + 1 = k
        /\ \A j \in k..Len(Exts) : TmpComplete(a_fs, Exts[j], a_snap)
        /\ a_fs' = Replace(a_fs, Exts[k])
        /\ a_ext' = k

\* when the call returns, every original is the file written by this call
\* and no temporary file is left
AllReplacedOnReturn ==
    (a_pc = "replace" /\ a_pc' = "returned") =>
        \A k \in 1..Len(Exts) : a_fs'[Exts[k]].gen = a_calls /\ a_fs'[Tmp(Exts[k])] = NoFile

\* C19: in _set_code_lu_field no original (.shp, .shx, .dbf) is replaced
\* before the whole rewritten bundle is in the temporary files and the writer
\* is closed without error; each original is then replaced by exactly one
\* rename of its temporary counterpart.
C19_ReplaceOnlyAfterCompleteWrite ==
    [][(\A k \in 1..Len(Exts) : ReplacedOnlyByRename(k)) /\ AllReplacedOnReturn]_vars

\* a bundle of two records whose three files have been renamed into place
C19_Witness ==
    /\ a_pc = "returned"
    /\ a_calls = 1
    /\ Len(a_snap["dbf"].rows) = 2
    /\ \A k \in 1..Len(Exts) : a_fs[Exts[k]].gen = 1 /\ a_fs[Tmp(Exts[k])] = NoFile
    /\ Len(a_fs["dbf"].rows) = 2

\* ------------------------------------------------- the downloaded archive
\* the file <typename>.zip written by the last request is still in the
\* layer's output directory
ArchiveOnDisk == b_attempt.wrote /\ b_attempt.zip_left

\* C20: after every request of a layer fetch, and so whenever the fetch
\* returns a path or fails, the downloaded archive no longer exists: it is
\* deleted after a successful extraction, after one that yields no .shp and
\* after one rejected as invalid, and never kept for the next attempt.
C20_ArchiveIsDeleted ==
    b_svc \in {"bdtopo", "bdtopage", "rpg"} => ~ArchiveOnDisk

\* ------------------------------------------------------------------ retries
\* what makes the client send a GET again
Retryable(o) ==
    \/ o.kind \in {"connect_error", "read_error"}
    \/ o.kind = "response" /\ o.status \in {429, 500, 502, 503, 504}

RetryableOrRetryAfter(o) ==
    Retryable(o) \/ (o.kind = "response" /\ o.status = 413 /\ o.retry_after)

\* at most 1 + 5 transmissions per GET, whatever earlier GETs consumed, and
\* at most that many per pair in the whole fetch
BoundedTransmissions ==
    /\ r_sent <= 1 + RetryConfig.total
    /\ r_pc = "send" /\ r_sent = 0 => r_retry = RetryConfig
    /\ Len(r_log) <= r_pairs
    /\ \A i \in 1..Len(r_log) : r_log[i] <= 1 + RetryConfig.total

FetchOver == r_pc \in {"returned", "failed"}

RecordDecodes(dbf, i, e) == ReadRecord(dbf.fields, dbf.rows[i], e)[1]

SomeRecordDecodes(dbf, e) == \E i \in 1..Len(dbf.rows) : RecordDecodes(dbf, i, e)

EveryRecordDecodes(dbf, e) == \A i \in 1..Len(dbf.rows) : RecordDecodes(dbf, i, e)

\* the reader of the running call was opened on the bundle a_snap
ReaderOpened == a_pc \notin {"idle", "call"} /\ a_enc # "none"

\* C22: the reader is opened with the first of utf-8, latin1, cp1252 under
\* which at least one record of the table decodes, and every record of an
\* accepted bundle decodes under the chosen encoding.
C22_FirstDecodingEncoding ==
    (ReaderOpened /\ a_snap["dbf"].rows # <<>>) =>
        /\ \E k \in 1..Len(Encodings) :
              /\ a_enc = Encodings[k]
              /\ SomeRecordDecodes(a_snap["dbf"], Encodings[k])
              /\ \A j \in 1..(k - 1) : ~SomeRecordDecodes(a_snap["dbf"], Encodings[j])
        /\ EveryRecordDecodes(a_snap["dbf"], a_enc)

\* ---------------------------------------------------------------------------
\* C23

\* the layers of the report skipped because the input geometry was refused
RefusedLayers == {n \in 1..Len(b_skipped) : b_skipped[n].value.reason = EmpriseRefused}

\* how many times the call has reported the input geometry as invalid
InvalidInputReports == Cardinality(RefusedLayers) + (IF b_exc = EmpriseRefused THEN 1 ELSE 0)

\* C23: in a batch call the envelope is computed exactly once, before the
\* first layer is attempted, so every GetFeature request of the batch is sent
\* with the envelope of that one computation, and an invalid input geometry is
\* reported once for the batch and not once per layer
C23_EnvelopeOncePerBatch ==
    IsBatch(b_svc) =>
        /\ b_emprise <= 1
        /\ b_requests # <<>> => b_emprise = 1
        /\ InvalidInputReports <= 1

\* ---------------------------------------------------------------------------
\* C24

\* the bdtopo batch has just finished a layer
LayerJustHandled == b_svc = "bdtopo" /\ b_pc = "layer" /\ b_i > 1 /\ b_outcome # "none"

HandledLayer == b_selected[b_i - 1]

\* the candidate of the request that was answered with the bundle
ProducingCandidate == b_candidates[b_requests[Len(b_requests)].ci]

\* the first geometry file of the archive of the last response, where it was extracted
ReturnedShp ==
    SelectSeq(SafeExtractZip(b_attempt.resp.zip, LayerDir(b_svc, HandledLayer)).extracted, IsShp)[1]

\* C24: a success entry of the bdtopo report records the candidate whose
\* request produced the bundle, the code configured for the key and the
\* geometry file returned; a skipped entry records the originally desired
\* type name and a non-empty reason
C24_ReportEntryContents ==
    LayerJustHandled =>
        IF b_outcome = "fetched"
        THEN LET e == DictGet(b_result, HandledLayer.key) IN
                /\ e.typename = ProducingCandidate
                /\ e.code_lu = CodeFor(HandledLayer.key)
                /\ e.shp_path = ReturnedShp
        ELSE LET e == DictGet(b_skipped, HandledLayer.key) IN
                /\ e.typename = HandledLayer.typename
                /\ e.reason # NoReason

\* ---------------------------------------------------------------------------
\* C25

\* bdtopo.py:120-125: the success entry is written once _set_code_lu_field
\* has returned
AugmenterReturned == a_pc = "returned"

\* C25: when the augmenter has returned without error, so that the layer may
\* enter the success set, every record of the bundle reads back the code
\* recorded for the layer in its CODE_LU field
C25_SuccessMeansCodeInEveryRecord ==
    AugmenterReturned =>
        LET new == a_fs["dbf"] IN
            /\ HasCodeLu(new.fields)
            /\ CodeLuIs(new, CodeIdx(new.fields), a_code)

\* ---------------------------------------------------------------------------
\* C26

\* the ways a request ends without a usable bundle and the download goes on
\* (bdtopo.py:171-178, 185-190, 197-198)
UnusableKinds == {"HTTP", "text", "RuntimeError:invalid", "RuntimeError:zipslip", "Aucun .shp"}

LastAttemptUnusable == b_attempt.diag.kind \in UnusableKinds

\* C26: a request that yields no usable bundle leaves the output directory of
\* the layer as it was: no extracted member and no archive remains
C26_UnusableAttemptLeavesNothing ==
    LastAttemptUnusable =>
        /\ b_attempt.written = {}
        /\ ~ArchiveOnDisk

\* ---------------------------------------------------------------------------
\* C27

\* the answer is an archive one of whose members would land outside the
\* output directory of the layer
IsTraversalArchive(r, layer) ==
    /\ ~r.net
    /\ r.status = 200
    /\ ~IsXmlAnswer(r)
    /\ r.zip.valid
    /\ \E n \in 1..Len(r.zip.members) : EscapesDir(LayerDir(b_svc, layer), r.zip.members[n])

\* a GetFeature request is answered with such an archive
TraversalAnswered ==
    /\ b_pc = "fmt"
    /\ b_attempt' # b_attempt
    /\ IsTraversalArchive(b_attempt'.resp, b_selected[b_i])

\* C27: an archive rejected for path traversal is handled like a corrupt one:
\* nothing is extracted, the archive is deleted, the rejection becomes the
\* current diagnostic and the download goes on with the next format; the
\* rejection itself never ends the fetch or the layer
C27_TraversalIsPassedOver ==
    [][TraversalAnswered =>
          /\ b_attempt'.diag.kind = "RuntimeError:zipslip"
          /\ b_attempt'.written = {}
          /\ ~b_attempt'.zip_left
          /\ b_dl_error' = b_attempt'.diag
          /\ b_pc' = "fmt"
          /\ b_fi' = b_fi + 1
          /\ b_ci' = b_ci
          /\ b_i' = b_i
          /\ b_exc' = b_exc
          /\ b_skipped' = b_skipped]_vars

\* a later candidate succeeded after the first one was given up on a
\* traversal rejection
C27_Witness ==
    /\ b_pc = "augment"
    /\ b_ci = 2
    /\ b_last_error.cause.kind = "RuntimeError:zipslip"
    /\ b_requests[Len(b_requests)].got

\* ---------------------------------------------------------------------------
\* SpecLayout: the head of a batch call: the layers it selects from its
\* argument and the output directory it makes for each of them

MaxRequested == 2

FETCH_BDTOPO == "fetch_bdtopo_occupation_layers_shapefiles"

FETCH_BDTOPAGE == "fetch_bdtopage_layers_shapefiles_by_emprise"

\* bdtopo.py:23-31: the keys of BDTOPO_OCCUPATION_LAYERS, in order
BDTOPO_OCCUPATION_KEYS ==
    << <<"B", "A", "T", "I", "M", "E", "N", "T">>,
       <<"C", "I", "M", "E", "T", "I", "E", "R", "E">>,
       <<"H", "A", "I", "E">>,
       <<"S", "U", "R", "F", "A", "C", "E", "_", "H", "Y", "D", "R", "O", "G", "R", "A", "P", "H", "I", "Q", "U", "E">>,
       <<"T", "E", "R", "R", "A", "I", "N", "_", "D", "E", "_", "S", "P", "O", "R", "T">>,
       <<"T", "R", "O", "N", "C", "O", "N", "_", "D", "E", "_", "R", "O", "U", "T", "E">>,
       <<"Z", "O", "N", "E", "_", "D", "E", "_", "V", "E", "G", "E", "T", "A", "T", "I", "O", "N">> >>

\* bdtopage.py:30-33
BDTOPAGE_DEFAULT_LAYERS ==
    << <<"T", "r", "o", "n", "c", "o", "n", "H", "y", "d", "r", "o", "g", "r", "a", "p", "h", "i", "q", "u", "e", "_", "F", "X", "X", "_", "T", "o", "p", "a", "g", "e", "2", "0", "2", "4">>,
       <<"S", "u", "r", "f", "a", "c", "e", "H", "y", "d", "r", "o", "g", "r", "a", "p", "h", "i", "q", "u", "e", "_", "F", "X", "X", "_", "T", "o", "p", "a", "g", "e", "2", "0", "2", "4">> >>

\* the keys a caller may ask for: the keys of layer_map, the names of layer_names
KeyChoices(fn) ==
    IF fn = FETCH_BDTOPO
    THEN {<<"H", "A", "I", "E">>, <<"h", "a", "i", "e">>, <<"H", "a", "i", "e">>, <<"B", "A", "T", "I">>}
    ELSE {<<"s", "a", ":", "t">>, <<"s", "a", "_", "t">>, <<"s", ":", "t">>, <<"s">>}

NoDuplicates(s) == \A i, j \in 1..Len(s) : s[i] = s[j] => i = j

\* the argument: None, or the keys in order (a dict has each key once, a list
\* may repeat a name), the empty dict and the empty list included
LayerArguments(fn) ==
    {[none |-> TRUE, keys |-> <<>>], [none |-> FALSE, keys |-> <<>>]}
    \cup {[none |-> FALSE, keys |-> ks] :
             ks \in {s \in SeqsUpTo(KeyChoices(fn), MaxRequested) :
                        fn = FETCH_BDTOPO => NoDuplicates(s)}}

\* Python truth value of the argument: None, {} and [] are false
Truthy(arg) == ~arg.none /\ arg.keys # <<>>

\* bdtopo.py:77  layer_map or BDTOPO_OCCUPATION_LAYERS
\* bdtopage.py:156  layer_names or BDTOPAGE_DEFAULT_LAYERS
SelectedKeys(fn, arg) ==
    IF Truthy(arg) THEN arg.keys
    ELSE IF fn = FETCH_BDTOPO THEN BDTOPO_OCCUPATION_KEYS
    ELSE BDTOPAGE_DEFAULT_LAYERS

ServiceOf(fn) == IF fn = FETCH_BDTOPO THEN "bdtopo" ELSE "bdtopage"

InitLayout ==
    /\ AugIdle
    /\ ZipIdle
    /\ BatchIdle
    /\ RetryIdle
    /\ f_fn \in {FETCH_BDTOPO, FETCH_BDTOPAGE}
    /\ f_args \in LayerArguments(f_fn)
    /\ f_pc = "call"
    /\ f_ret = <<>>

\* bdtopo.py:77-90, bdtopage.py:156-161
SelectLayers ==
    /\ f_fn \in {FETCH_BDTOPO, FETCH_BDTOPAGE}
    /\ f_pc = "call"
    /\ f_ret' = [selected |-> SelectedKeys(f_fn, f_args), dirs |-> <<>>, keys |-> {}]
    /\ f_pc' = "loop"
    /\ UNCHANGED <<f_fn, f_args>>
    /\ OnlyCall

\* bdtopo.py:92-127, bdtopage.py:163-178: one turn of the layer loop makes the
\* directory of the layer, fetches into it and enters the key in one of the
\* two dicts of the report
HandleLayer ==
    /\ f_fn \in {FETCH_BDTOPO, FETCH_BDTOPAGE}
    /\ f_pc = "loop"
    /\ Len(f_ret.dirs) < Len(f_ret.selected)
    /\ LET key == f_ret.selected[Len(f_ret.dirs) + 1] IN
          f_ret' = [f_ret EXCEPT !.dirs = Append(@, LayerDir(ServiceOf(f_fn), Layer(key, key))),
                                 !.keys = @ \cup {key}]
    /\ UNCHANGED <<f_fn, f_args, f_pc>>
    /\ OnlyCall

\* bdtopo.py:129, bdtopage.py:180
ReturnReport ==
    /\ f_fn \in {FETCH_BDTOPO, FETCH_BDTOPAGE}
    /\ f_pc = "loop"
    /\ Len(f_ret.dirs) = Len(f_ret.selected)
    /\ f_pc' = "returned"
    /\ UNCHANGED <<f_fn, f_args, f_ret>>
    /\ OnlyCall

NextLayout ==
    \/ SelectLayers
    \/ HandleLayer
    \/ ReturnReport

SpecLayout == InitLayout /\ [][NextLayout]_vars

\* ---------------------------------------------------------------------------
\* C28

\* C28: within one batch two distinct requested keys are given two distinct
\* per-layer output directories
C28_DistinctKeysDistinctDirs ==
    f_fn \in {FETCH_BDTOPO, FETCH_BDTOPAGE} /\ f_pc \in {"loop", "returned"} =>
        \A i, j \in 1..Len(f_ret.dirs) :
            f_ret.selected[i] # f_ret.selected[j] => f_ret.dirs[i] # f_ret.dirs[j]

\* ---------------------------------------------------------------------------
\* C29

\* C29: when an argument other than None is passed, the keys of the returned
\* report are the keys of the argument; an empty request gives an empty report
\* and no layer is handled
C29_ReportKeysAreArgumentKeys ==
    (f_fn \in {FETCH_BDTOPO, FETCH_BDTOPAGE} /\ f_pc = "returned" /\ ~f_args.none) =>
        /\ f_ret.keys = SeqToSet(f_args.keys)
        /\ f_args.keys = <<>> => f_ret.dirs = <<>>

\* ---------------------------------------------------------------------------
\* C30

\* the files of the directory that are neither the bundle's .shp, .shx, .dbf
\* nor the temporary files of the call
OtherSiblings == AugFiles \ ({Exts[k] : k \in 1..Len(Exts)} \cup {Tmp(Exts[k]) : k \in 1..Len(Exts)})

\* C30: whether _set_code_lu_field succeeds or fails, every other sibling of
\* the bundle is as the call found it, and after a successful call no
\* temporary file remains
C30_OnlyBundleAndTemporaries ==
    /\ \A f \in OtherSiblings : a_fs[f] = a_snap[f]
    /\ a_pc = "returned" => \A k \in 1..Len(Exts) : a_fs[Tmp(Exts[k])] = NoFile

C30_Witness ==
    /\ a_pc = "returned"
    /\ a_calls = 1
    /\ \A k \in 1..Len(Exts) : a_fs[Exts[k]].gen = 1
    /\ a_fs["prj"] = [gen |-> 0]
    /\ Len(a_fs["dbf"].rows) = 1

====
